---- MODULE Spec2Model ----
(***************************************************************************)
(* Verification model of the circuit-analysis core of                      *)
(* virtual-electrical-designer:                                            *)
(*   - CircuitSolver                (backend/simulation/circuit_solver.py) *)
(*   - CircuitSolverMicroservices   (.../circuit_solver_microservices.py)  *)
(*   - DCAnalyzer, ACAnalyzer, TransientAnalyzer (backend/services/*.py)   *)
(*                                                                         *)
(* Python floats are modelled as exact rationals <<num, den>> (den > 0,    *)
(* lowest terms), so scipy.linalg.solve is modelled as "the exact solution *)
(* of Y.x = I, or LinAlgError when Y is singular".  A Python dict is       *)
(* modelled as an insertion-ordered sequence of entries where the order is *)
(* observable (the node registry) and as a function otherwise.             *)
(*                                                                         *)
(* The variable sut names the object the caller constructed; the other     *)
(* objects stay in their constructed state.                                *)
(***************************************************************************)
EXTENDS Integers, Sequences, FiniteSets, TLC

VARIABLES
    sut,        \* which class the caller instantiated
    cs,         \* CircuitSolver: nodes, components, node_counter, ground_node
    ms,         \* CircuitSolverMicroservices: nodes, node_counter, components_list
    dc,         \* DCAnalyzer: components, voltage_sources, current_sources, node_count
    ac,         \* ACAnalyzer: components, voltage_sources
    tr,         \* TransientAnalyzer: components, sources, initial_conditions
    last_call,  \* the operation the caller invoked last, with its arguments
    ret,        \* what that operation returned to the caller (or that it raised)
    engine_ret, \* what the analyzer's solve returned inside the facade's analysis
    ls,         \* LibraryService: libraries, last_file_mtimes, and the library directory
    reg         \* LibraryRegistry: components, libraries, change_callbacks, and its directory

vars == <<sut, cs, ms, dc, ac, tr, last_call, ret, engine_ret, ls, reg>>

(***************************************************************************)
(* Bounds of the model and input alphabets.                                *)
(***************************************************************************)
MaxComps == 2          \* components per circuit in Spec
MaxDCComps == 3        \* components per circuit in SpecDC
MaxEngineComps == 2    \* components per engine in SpecEngines
MaxLegacyComps == 4    \* components per circuit in SpecLegacyTR
MaxMtime == 2          \* rewrites of one library file in SpecLibrary
MaxCallbacks == 2      \* length of change_callbacks in SpecRegistry

\* node names the caller uses; "Ground" exercises str.lower()
NodeNames == {"gnd", "Ground", "0", "a", "b"}

\* values the caller passes for R, L and C in Spec: negative, zero, positive
InsertValues == {-1, 0, 2}

\* str.lower() on the names of the model
Lower(s) == IF s = "Ground" THEN "ground" ELSE s

(***************************************************************************)
(* Exact rational arithmetic.                                              *)
(***************************************************************************)
Abs(x) == IF x < 0 THEN -x ELSE x

RECURSIVE GCD(_, _)
GCD(a, b) == IF b = 0 THEN a ELSE GCD(b, a % b)

Norm(n, d) ==
    LET g == GCD(Abs(n), Abs(d))
        s == IF d < 0 THEN -1 ELSE 1
    IN  <<(s * n) \div g, (s * d) \div g>>

Rat(n) == <<n, 1>>
Zero == <<0, 1>>
One == <<1, 1>>
\* sums and products cancel common factors before they multiply
RAdd(x, y) ==
    LET g == GCD(x[2], y[2])
    IN  Norm(x[1] * (y[2] \div g) + y[1] * (x[2] \div g), (x[2] \div g) * y[2])
RNeg(x) == <<-x[1], x[2]>>
RSub(x, y) == RAdd(x, RNeg(y))
RMul(x, y) ==
    LET g1 == GCD(Abs(x[1]), y[2])
        g2 == GCD(Abs(y[1]), x[2])
    IN  Norm((x[1] \div g1) * (y[1] \div g2), (x[2] \div g2) * (y[2] \div g1))
\* x / y for y # 0
RDiv(x, y) == RMul(x, IF y[1] < 0 THEN <<-y[2], -y[1]>> ELSE <<y[2], y[1]>>)

EmptyMap == [x \in {} |-> Zero]

(***************************************************************************)
(* Node registry: an insertion-ordered dict name -> index.                 *)
(***************************************************************************)
Keys(nodes) == {nodes[i].name : i \in 1..Len(nodes)}
Values(nodes) == {nodes[i].idx : i \in 1..Len(nodes)}
Lookup(nodes, name) == (CHOOSE i \in 1..Len(nodes) : nodes[i].name = name)
SetMax(S) == CHOOSE x \in S : \A y \in S : y <= x

\* CircuitSolver.add_node
CS_add_node(self, node_name) ==
    IF node_name \notin Keys(self.nodes)
    THEN IF Lower(node_name) = "gnd" \/ Lower(node_name) = "ground"
         THEN [self EXCEPT !.ground_node = <<node_name>>,
                           !.nodes = Append(@, [name |-> node_name, idx |-> 0])]
         ELSE [self EXCEPT !.node_counter = @ + 1,
                           !.nodes = Append(@, [name |-> node_name,
                                                idx |-> self.node_counter + 1])]
    ELSE self

\* add_node without the "already registered" test: the name is bound again
MS_add_node_rebinding(self, node_name) ==
    LET rebind(nodes, idx) ==
            IF node_name \in Keys(nodes)
            THEN [nodes EXCEPT ![Lookup(nodes, node_name)].idx = idx]
            ELSE Append(nodes, [name |-> node_name, idx |-> idx])
    IN  IF Lower(node_name) \in {"gnd", "ground", "0"}
        THEN [self EXCEPT !.nodes = rebind(@, 0)]
        ELSE [self EXCEPT !.node_counter = @ + 1,
                          !.nodes = rebind(@, self.node_counter + 1)]

\* CircuitSolverMicroservices.add_node
MS_add_node(self, node_name) ==
    IF node_name \notin Keys(self.nodes)
    THEN IF Lower(node_name) \in {"gnd", "ground", "0"}
         THEN [self EXCEPT !.nodes = Append(@, [name |-> node_name, idx |-> 0])]
         ELSE [self EXCEPT !.node_counter = @ + 1,
                           !.nodes = Append(@, [name |-> node_name,
                                                idx |-> self.node_counter + 1])]
    ELSE self

\* the index add_node returns: self.nodes[node_name] after registration
NodeIndex(self, node_name) == self.nodes[Lookup(self.nodes, node_name)].idx


(***************************************************************************)
(* Component dictionaries.                                                 *)
(***************************************************************************)
TwoTerminal(type, name, node1, node2, value) ==
    [type |-> type, name |-> name, node1 |-> node1, node2 |-> node2, value |-> value]

Source(type, name, node_pos, node_neg, value) ==
    [type |-> type, name |-> name, node_pos |-> node_pos, node_neg |-> node_neg,
     value |-> value]

(***************************************************************************)
(* DCAnalyzer, ACAnalyzer, TransientAnalyzer: construction and add_*.      *)
(* An operation that can raise returns [raised, self].                     *)
(***************************************************************************)
DC_init == [node_count |-> 0, components |-> <<>>, voltage_sources |-> <<>>,
            current_sources |-> <<>>, ground_node |-> 0]

AC_init == [components |-> <<>>, voltage_sources |-> <<>>, ground_node |-> 0]

TR_init == [components |-> <<>>, sources |-> <<>>, initial_conditions |-> EmptyMap]

DC_add_resistor(self, name, node1, node2, value) ==
    IF value <= 0
    THEN [raised |-> TRUE, self |-> self]
    ELSE [raised |-> FALSE,
          self |-> [self EXCEPT !.components =
                       Append(@, TwoTerminal("resistor", name, node1, node2, value))]]

DC_add_voltage_source(self, name, node_pos, node_neg, voltage) ==
    [self EXCEPT !.voltage_sources =
        Append(@, [name |-> name, node_pos |-> node_pos, node_neg |-> node_neg,
                   voltage |-> voltage])]

DC_add_current_source(self, name, node1, node2, current) ==
    [self EXCEPT !.current_sources =
        Append(@, [name |-> name, node1 |-> node1, node2 |-> node2,
                   current |-> current])]

AC_add_resistor(self, name, node1, node2, value) ==
    [self EXCEPT !.components =
        Append(@, TwoTerminal("resistor", name, node1, node2, value))]

AC_add_capacitor(self, name, node1, node2, capacitance) ==
    [self EXCEPT !.components =
        Append(@, TwoTerminal("capacitor", name, node1, node2, capacitance))]

AC_add_inductor(self, name, node1, node2, inductance) ==
    [self EXCEPT !.components =
        Append(@, TwoTerminal("inductor", name, node1, node2, inductance))]

\* phase is stored as np.radians(phase); the facade always passes 0
AC_add_voltage_source(self, name, node_pos, node_neg, magnitude, phase) ==
    [self EXCEPT !.voltage_sources =
        Append(@, [name |-> name, node_pos |-> node_pos, node_neg |-> node_neg,
                   magnitude |-> magnitude, phase |-> phase])]

\* dict assignment d[k] = v
DictSet(d, k, v) == [x \in DOMAIN d \cup {k} |-> IF x = k THEN v ELSE d[x]]

TR_add_resistor(self, name, node1, node2, value) ==
    [self EXCEPT !.components =
        Append(@, TwoTerminal("resistor", name, node1, node2, value))]

TR_add_capacitor(self, name, node1, node2, capacitance, initial_voltage) ==
    [self EXCEPT !.components =
                    Append(@, TwoTerminal("capacitor", name, node1, node2, capacitance)),
                 !.initial_conditions = DictSet(@, name, initial_voltage)]

TR_add_inductor(self, name, node1, node2, inductance, initial_current) ==
    [self EXCEPT !.components =
                    Append(@, TwoTerminal("inductor", name, node1, node2, inductance)),
                 !.initial_conditions = DictSet(@, name, initial_current)]

\* voltage_func is a closure; it is modelled by the data that defines it
TR_add_voltage_source(self, name, node_pos, node_neg, voltage_func) ==
    [self EXCEPT !.sources =
        Append(@, [type |-> "voltage_source", name |-> name, node_pos |-> node_pos,
                   node_neg |-> node_neg, func |-> voltage_func])]

TR_add_pulse_source(self, name, node_pos, node_neg, v_initial, v_pulse, t_rise) ==
    TR_add_voltage_source(self, name, node_pos, node_neg,
        [kind |-> "pulse", v_initial |-> v_initial, v_pulse |-> v_pulse,
         t_rise |-> t_rise])

(***************************************************************************)
(* CircuitSolver: construction and add_*.                                  *)
(***************************************************************************)
CS_init == [nodes |-> <<>>, components |-> <<>>, node_counter |-> 0,
            ground_node |-> <<>>]

\* n1 = self.add_node(node1); n2 = self.add_node(node2); append
CS_append(self, type, name, node1, node2, value) ==
    LET s1 == CS_add_node(self, node1)
        n1 == NodeIndex(s1, node1)
        s2 == CS_add_node(s1, node2)
        n2 == NodeIndex(s2, node2)
    IN  [s2 EXCEPT !.components =
            Append(@, IF type \in {"voltage_source"}
                      THEN Source(type, name, n1, n2, value)
                      ELSE TwoTerminal(type, name, n1, n2, value))]

CS_add_resistor(self, name, node1, node2, resistance) ==
    IF resistance <= 0
    THEN [raised |-> TRUE, self |-> self]
    ELSE [raised |-> FALSE, self |-> CS_append(self, "resistor", name, node1, node2, resistance)]

\* add_capacitor that registers the terminals before it validates the value
CS_add_capacitor_late_check(self, name, node1, node2, capacitance) ==
    LET s2 == CS_add_node(CS_add_node(self, node1), node2)
    IN  IF capacitance <= 0
        THEN [raised |-> TRUE, self |-> s2]
        ELSE [raised |-> FALSE,
              self |-> CS_append(self, "capacitor", name, node1, node2, capacitance)]

CS_add_capacitor(self, name, node1, node2, capacitance) ==
    IF capacitance <= 0
    THEN [raised |-> TRUE, self |-> self]
    ELSE [raised |-> FALSE, self |-> CS_append(self, "capacitor", name, node1, node2, capacitance)]

CS_add_inductor(self, name, node1, node2, inductance) ==
    IF inductance <= 0
    THEN [raised |-> TRUE, self |-> self]
    ELSE [raised |-> FALSE, self |-> CS_append(self, "inductor", name, node1, node2, inductance)]

CS_add_voltage_source(self, name, node_pos, node_neg, voltage) ==
    CS_append(self, "voltage_source", name, node_pos, node_neg, voltage)

CS_add_current_source(self, name, node1, node2, current) ==
    CS_append(self, "current_source", name, node1, node2, current)

(***************************************************************************)
(* CircuitSolverMicroservices: construction and add_*.  The facade and its *)
(* three analyzers change together: an operation maps the tuple            *)
(* [ms, dc, ac, tr] to [raised, ms, dc, ac, tr].                           *)
(***************************************************************************)
MS_init == [nodes |-> <<>>, node_counter |-> 0, components_list |-> <<>>,
            circuit_name |-> "Circuit"]

World(m, d, a, t) == [ms |-> m, dc |-> d, ac |-> a, tr |-> t]
Raise(w) == [raised |-> TRUE, ms |-> w.ms, dc |-> w.dc, ac |-> w.ac, tr |-> w.tr]
Return(w) == [raised |-> FALSE, ms |-> w.ms, dc |-> w.dc, ac |-> w.ac, tr |-> w.tr]

MS_add_resistor(w, name, node1, node2, resistance) ==
    IF resistance <= 0 THEN Raise(w)
    ELSE
    LET s1 == MS_add_node(w.ms, node1)
        n1 == NodeIndex(s1, node1)
        s2 == MS_add_node(s1, node2)
        n2 == NodeIndex(s2, node2)
        d  == DC_add_resistor(w.dc, name, n1, n2, resistance)
    IN  IF d.raised THEN Raise(World(s2, w.dc, w.ac, w.tr))
        ELSE Return(World(
                [s2 EXCEPT !.components_list =
                    Append(@, TwoTerminal("resistor", name, n1, n2, resistance))],
                d.self,
                AC_add_resistor(w.ac, name, n1, n2, resistance),
                TR_add_resistor(w.tr, name, n1, n2, resistance)))

MS_add_capacitor(w, name, node1, node2, capacitance) ==
    IF capacitance <= 0 THEN Raise(w)
    ELSE
    LET s1 == MS_add_node(w.ms, node1)
        n1 == NodeIndex(s1, node1)
        s2 == MS_add_node(s1, node2)
        n2 == NodeIndex(s2, node2)
    IN  Return(World(
            [s2 EXCEPT !.components_list =
                Append(@, TwoTerminal("capacitor", name, n1, n2, capacitance))],
            w.dc,
            AC_add_capacitor(w.ac, name, n1, n2, capacitance),
            TR_add_capacitor(w.tr, name, n1, n2, capacitance, 0)))

MS_add_inductor(w, name, node1, node2, inductance) ==
    IF inductance <= 0 THEN Raise(w)
    ELSE
    LET s1 == MS_add_node(w.ms, node1)
        n1 == NodeIndex(s1, node1)
        s2 == MS_add_node(s1, node2)
        n2 == NodeIndex(s2, node2)
    IN  Return(World(
            [s2 EXCEPT !.components_list =
                Append(@, TwoTerminal("inductor", name, n1, n2, inductance))],
            w.dc,
            AC_add_inductor(w.ac, name, n1, n2, inductance),
            TR_add_inductor(w.tr, name, n1, n2, inductance, 0)))

MS_add_voltage_source(w, name, node_pos, node_neg, voltage) ==
    LET s1 == MS_add_node(w.ms, node_pos)
        n_pos == NodeIndex(s1, node_pos)
        s2 == MS_add_node(s1, node_neg)
        n_neg == NodeIndex(s2, node_neg)
    IN  Return(World(
            [s2 EXCEPT !.components_list =
                Append(@, Source("voltage_source", name, n_pos, n_neg, voltage))],
            DC_add_voltage_source(w.dc, name, n_pos, n_neg, voltage),
            AC_add_voltage_source(w.ac, name, n_pos, n_neg, voltage, 0),
            TR_add_pulse_source(w.tr, name, n_pos, n_neg, 0, voltage, 0)))

MS_add_current_source(w, name, node1, node2, current) ==
    LET s1 == MS_add_node(w.ms, node1)
        n1 == NodeIndex(s1, node1)
        s2 == MS_add_node(s1, node2)
        n2 == NodeIndex(s2, node2)
    IN  Return(World(
            [s2 EXCEPT !.components_list =
                Append(@, TwoTerminal("current_source", name, n1, n2, current))],
            DC_add_current_source(w.dc, name, n1, n2, current),
            w.ac, w.tr))

(***************************************************************************)
(* Linear algebra.  A matrix is a function [0..n-1 -> [0..n-1 -> rational]]*)
(* and a vector a function [0..n-1 -> rational], indexed as numpy arrays.  *)
(***************************************************************************)
ZeroVector(n) == [i \in 0..(n - 1) |-> Zero]
ZeroMatrix(n) == [i \in 0..(n - 1) |-> ZeroVector(n)]

LCM(a, b) == (a \div GCD(a, b)) * b

\* the least common denominator of row[0..k-1]
RECURSIVE RowDenominator(_, _)
RowDenominator(row, k) ==
    IF k = 0 THEN 1 ELSE LCM(RowDenominator(row, k - 1), row[k - 1][2])

\* the greatest common divisor of the integers row[0..k-1] (0 for a zero row)
RECURSIVE RowGCD(_, _)
RowGCD(row, k) ==
    IF k = 0 THEN 0 ELSE GCD(RowGCD(row, k - 1), Abs(row[k - 1]))

\* the system with every equation multiplied by its common denominator and
\* divided by the common factor of its coefficients: the same solutions and
\* the same singularity, over the integers
ScaleSystem(Y, I, n) ==
    LET s == [i \in 0..(n - 1) |-> LCM(RowDenominator(Y[i], n), I[i][2])]
        Yz == [i \in 0..(n - 1) |->
                 [j \in 0..(n - 1) |-> Y[i][j][1] * (s[i] \div Y[i][j][2])]]
        Iz == [i \in 0..(n - 1) |-> I[i][1] * (s[i] \div I[i][2])]
        g == [i \in 0..(n - 1) |->
                LET d == GCD(RowGCD(Yz[i], n), Abs(Iz[i]))
                IN  IF d = 0 THEN 1 ELSE d]
    IN  [Y |-> [i \in 0..(n - 1) |-> [j \in 0..(n - 1) |-> Yz[i][j] \div g[i]]],
         I |-> [i \in 0..(n - 1) |-> Iz[i] \div g[i]]]

\* determinant by Laplace expansion along the rows, skipping zero entries
RECURSIVE DetFrom(_, _, _, _), DetCols(_, _, _, _, _)
DetFrom(M, n, r, cols) == IF r = n THEN 1 ELSE DetCols(M, n, r, cols, 0)
DetCols(M, n, r, cols, c) ==
    IF c = n THEN 0
    ELSE IF c \notin cols \/ M[r][c] = 0 THEN DetCols(M, n, r, cols, c + 1)
    ELSE LET pos  == Cardinality({x \in cols : x < c})
             term == M[r][c] * DetFrom(M, n, r + 1, cols \ {c})
         IN  (IF pos % 2 = 0 THEN term ELSE -term) + DetCols(M, n, r, cols, c + 1)

Det(M, n) == DetFrom(M, n, 0, 0..(n - 1))

ReplaceColumn(M, n, c, b) == [i \in 0..(n - 1) |-> [M[i] EXCEPT ![c] = b[i]]]

\* the matrix Y has no inverse
Singular(Y, n) == Det(ScaleSystem(Y, ZeroVector(n), n).Y, n) = 0

\* scipy.linalg.solve / numpy.linalg.solve: LinAlgError on a singular matrix,
\* otherwise the solution of Y.x = I (Cramer's rule)
LinSolve(Y, I, n) ==
    LET Z == ScaleSystem(Y, I, n)
        d == Det(Z.Y, n)
    IN  IF d = 0
        THEN [singular |-> TRUE, x |-> EmptyMap]
        ELSE [singular |-> FALSE,
              x |-> [i \in 0..(n - 1) |-> Norm(Det(ReplaceColumn(Z.Y, n, i, Z.I), n), d)]]

\* the symmetric two-terminal stamp: Y[n1,n1]+=G; Y[n2,n2]+=G; Y[n1,n2]-=G; Y[n2,n1]-=G
Stamp(Y, n1, n2, G) ==
    [Y EXCEPT ![n1][n1] = RAdd(@, G), ![n2][n2] = RAdd(@, G),
              ![n1][n2] = RSub(@, G), ![n2][n1] = RSub(@, G)]

(***************************************************************************)
(* DCAnalyzer.solve                                                        *)
(***************************************************************************)
RECURSIVE DC_stamp_resistors(_, _, _)
DC_stamp_resistors(Y, comps, k) ==
    IF k > Len(comps) THEN Y
    ELSE LET comp == comps[k]
         IN  DC_stamp_resistors(
                 IF comp.type = "resistor"
                 THEN Stamp(Y, comp.node1, comp.node2, RDiv(One, Rat(comp.value)))
                 ELSE Y,
                 comps, k + 1)

RECURSIVE DC_stamp_current_sources(_, _, _)
DC_stamp_current_sources(I, srcs, k) ==
    IF k > Len(srcs) THEN I
    ELSE LET src == srcs[k]
         IN  DC_stamp_current_sources(
                 [I EXCEPT ![src.node1] = RSub(@, Rat(src.current)),
                           ![src.node2] = RAdd(@, Rat(src.current))],
                 srcs, k + 1)

\* the i-th voltage source (i from 0) owns row and column num_nodes + i;
\* the entries are assigned, not accumulated
RECURSIVE DC_stamp_voltage_sources(_, _, _, _)
DC_stamp_voltage_sources(YI, srcs, num_nodes, k) ==
    IF k > Len(srcs) THEN YI
    ELSE LET src == srcs[k]
             eq_idx == num_nodes + (k - 1)
             Y1 == [YI.Y EXCEPT ![eq_idx][src.node_pos] = One,
                                ![eq_idx][src.node_neg] = RNeg(One)]
             Y2 == [Y1 EXCEPT ![src.node_pos][eq_idx] = One,
                              ![src.node_neg][eq_idx] = RNeg(One)]
         IN  DC_stamp_voltage_sources(
                 [Y |-> Y2, I |-> [YI.I EXCEPT ![eq_idx] = Rat(src.voltage)]],
                 srcs, num_nodes, k + 1)

\* the system DCAnalyzer.solve assembles before it calls solve(Y, I)
DC_system(self, num_nodes) ==
    LET num_vars == num_nodes + Len(self.voltage_sources)
    IN  DC_stamp_voltage_sources(
            [Y |-> DC_stamp_resistors(ZeroMatrix(num_vars), self.components, 1),
             I |-> DC_stamp_current_sources(ZeroVector(num_vars),
                                            self.current_sources, 1)],
            self.voltage_sources, num_nodes, 1)

\* an index past the end of the arrays raises IndexError inside the try block
DC_indices_ok(self, num_nodes) ==
    LET num_vars == num_nodes + Len(self.voltage_sources)
    IN  /\ \A k \in 1..Len(self.components) :
              self.components[k].node1 < num_vars /\ self.components[k].node2 < num_vars
        /\ \A k \in 1..Len(self.current_sources) :
              self.current_sources[k].node1 < num_vars
              /\ self.current_sources[k].node2 < num_vars
        /\ \A k \in 1..Len(self.voltage_sources) :
              self.voltage_sources[k].node_pos < num_vars
              /\ self.voltage_sources[k].node_neg < num_vars

\* a dict filled by a loop over a list: later entries overwrite earlier ones
RECURSIVE FillDict(_, _, _, _)
FillDict(d, keys, vals, k) ==
    IF k > Len(keys) THEN d
    ELSE FillDict(DictSet(d, keys[k], vals[k]), keys, vals, k + 1)

NamesOf(seq) == [k \in 1..Len(seq) |-> seq[k].name]

DC_error(message) ==
    [status |-> "error", message |-> message, node_voltages |-> EmptyMap,
     currents |-> EmptyMap, power |-> EmptyMap, source_currents |-> EmptyMap]

\* the dictionaries DCAnalyzer.solve builds from the solution vector X
DC_extract(self, num_nodes, X) ==
    LET comps == self.components
        isrc  == self.current_sources
        vsrc  == self.voltage_sources
        source_currents ==
            FillDict(EmptyMap, NamesOf(vsrc),
                     [k \in 1..Len(vsrc) |-> X[num_nodes + (k - 1)]], 1)
        I_comp(comp) == RDiv(RSub(X[comp.node1], X[comp.node2]), Rat(comp.value))
        cur1 == FillDict(EmptyMap, NamesOf(comps),
                         [k \in 1..Len(comps) |-> I_comp(comps[k])], 1)
        pow1 == FillDict(EmptyMap, NamesOf(comps),
                         [k \in 1..Len(comps) |->
                             RMul(RMul(I_comp(comps[k]), I_comp(comps[k])),
                                  Rat(comps[k].value))], 1)
        cur2 == FillDict(cur1, NamesOf(isrc),
                         [k \in 1..Len(isrc) |-> Rat(isrc[k].current)], 1)
        pow2 == FillDict(pow1, NamesOf(isrc),
                         [k \in 1..Len(isrc) |->
                             RMul(RSub(X[isrc[k].node1], X[isrc[k].node2]),
                                  Rat(isrc[k].current))], 1)
        cur3 == FillDict(cur2, NamesOf(vsrc),
                         [k \in 1..Len(vsrc) |-> source_currents[vsrc[k].name]], 1)
        pow3 == FillDict(pow2, NamesOf(vsrc),
                         [k \in 1..Len(vsrc) |->
                             RMul(Rat(vsrc[k].voltage), source_currents[vsrc[k].name])], 1)
    IN  [status |-> "success", message |-> "",
         node_voltages |-> [i \in 0..(num_nodes - 1) |-> X[i]],
         currents |-> cur3, power |-> pow3, source_currents |-> source_currents]

\* DC_solve without the LinAlgError branch: a singular system is answered with
\* the zero vector (a least-squares style fallback) and reported as solved
DC_solve_unchecked(self, num_nodes) ==
    IF ~DC_indices_ok(self, num_nodes)
    THEN DC_error("index out of bounds")
    ELSE LET num_vars == num_nodes + Len(self.voltage_sources)
             YI == DC_system(self, num_nodes)
             sol == LinSolve(YI.Y, YI.I, num_vars)
         IN  DC_extract(self, num_nodes,
                        IF sol.singular THEN ZeroVector(num_vars) ELSE sol.x)

\* DCAnalyzer.solve(num_nodes): the result dictionary
DC_solve(self, num_nodes) ==
    IF ~DC_indices_ok(self, num_nodes)
    THEN DC_error("index out of bounds")
    ELSE LET num_vars == num_nodes + Len(self.voltage_sources)
             YI == DC_system(self, num_nodes)
             sol == LinSolve(YI.Y, YI.I, num_vars)
         IN  IF sol.singular
             THEN DC_error("Circuit matrix singular - check for floating nodes")
             ELSE DC_extract(self, num_nodes, sol.x)

(***************************************************************************)
(* CircuitSolver.dc_analysis                                               *)
(***************************************************************************)
G_source == 1000000

Failed(message) ==
    [status |-> "failed", message |-> message, node_voltages |-> EmptyMap,
     node_names |-> EmptyMap, component_currents |-> EmptyMap, nodes |-> <<>>]

\* first pass: resistors and current sources
RECURSIVE CS_stamp_first_pass(_, _, _)
CS_stamp_first_pass(YI, comps, k) ==
    IF k > Len(comps) THEN YI
    ELSE LET comp == comps[k]
         IN  CS_stamp_first_pass(
                 IF comp.type = "resistor"
                 THEN [YI EXCEPT !.Y = Stamp(@, comp.node1, comp.node2,
                                             RDiv(One, Rat(comp.value)))]
                 ELSE IF comp.type = "current_source"
                 THEN [YI EXCEPT !.I = [@ EXCEPT ![comp.node1] = RSub(@, Rat(comp.value)),
                                                 ![comp.node2] = RAdd(@, Rat(comp.value))]]
                 ELSE YI,
                 comps, k + 1)

\* second pass: a voltage source is a large conductance to its value
RECURSIVE CS_stamp_voltage_sources(_, _, _)
CS_stamp_voltage_sources(YI, comps, k) ==
    IF k > Len(comps) THEN YI
    ELSE LET comp == comps[k]
             pos(yi) == IF comp.node_pos # 0
                        THEN [Y |-> [yi.Y EXCEPT ![comp.node_pos][comp.node_pos] =
                                         RAdd(@, Rat(G_source))],
                              I |-> [yi.I EXCEPT ![comp.node_pos] =
                                         RAdd(@, Rat(G_source * comp.value))]]
                        ELSE yi
             neg(yi) == IF comp.node_neg # 0
                        THEN [Y |-> [yi.Y EXCEPT ![comp.node_neg][comp.node_neg] =
                                         RAdd(@, Rat(G_source))],
                              I |-> [yi.I EXCEPT ![comp.node_neg] =
                                         RSub(@, Rat(G_source * comp.value))]]
                        ELSE yi
         IN  CS_stamp_voltage_sources(
                 IF comp.type = "voltage_source" THEN neg(pos(YI)) ELSE YI,
                 comps, k + 1)

\* Y[0, :] = 0; Y[0, 0] = 1; I[0] = 0
CS_ground_row(YI, num_nodes) ==
    [Y |-> [YI.Y EXCEPT ![0] = [j \in 0..(num_nodes - 1) |->
                                   IF j = 0 THEN One ELSE Zero]],
     I |-> [YI.I EXCEPT ![0] = Zero]]

\* the system CircuitSolver.dc_analysis hands to solve(Y, I)
CS_dc_system(self, num_nodes) ==
    CS_ground_row(
        CS_stamp_voltage_sources(
            CS_stamp_first_pass([Y |-> ZeroMatrix(num_nodes), I |-> ZeroVector(num_nodes)],
                                self.components, 1),
            self.components, 1),
        num_nodes)

CS_calculate_currents(self, V) ==
    LET comps == SelectSeq(self.components,
                           LAMBDA c : c.type \in {"resistor", "capacitor", "inductor"})
    IN  FillDict(EmptyMap, NamesOf(comps),
                 [k \in 1..Len(comps) |->
                     IF comps[k].type = "resistor"
                     THEN RDiv(RSub(V[comps[k].node1], V[comps[k].node2]),
                               Rat(comps[k].value))
                     ELSE Zero], 1)

\* {name: V[idx] for name, idx in self.nodes.items()}
NodeNamesOf(nodes, V) ==
    [name \in Keys(nodes) |-> V[nodes[Lookup(nodes, name)].idx]]

CS_dc_analysis(self) ==
    IF self.nodes = <<>>
    THEN Failed("No nodes in circuit")
    ELSE LET num_nodes == SetMax(Values(self.nodes)) + 1
             YI == CS_dc_system(self, num_nodes)
             sol == LinSolve(YI.Y, YI.I, num_nodes)
         IN  IF sol.singular
             THEN Failed("Singular matrix - check circuit topology")
             ELSE [status |-> "success", message |-> "",
                   node_voltages |-> sol.x,
                   node_names |-> NodeNamesOf(self.nodes, sol.x),
                   component_currents |-> CS_calculate_currents(self, sol.x),
                   nodes |-> self.nodes]

(***************************************************************************)
(* CircuitSolverMicroservices.dc_analysis: [dc, engine_result, result]     *)
(***************************************************************************)
\* dc_analysis that empties the DC analyzer's component list as it solves
MS_dc_analysis_consuming(w) ==
    IF w.ms.nodes = <<>>
    THEN [dc |-> w.dc, engine_result |-> [status |-> "", message |-> "",
              node_voltages |-> EmptyMap, currents |-> EmptyMap, power |-> EmptyMap,
              source_currents |-> EmptyMap],
          result |-> Failed("No nodes in circuit")]
    ELSE LET num_nodes == SetMax(Values(w.ms.nodes)) + 1
             result == DC_solve(w.dc, num_nodes)
             nv == result.node_voltages
             \* result.get('node_voltages') is not None: every result DCAnalyzer.solve
             \* returns carries the key, an empty dict when the solve failed
             has_voltages == TRUE
         IN  [dc |-> [w.dc EXCEPT !.node_count = num_nodes, !.components = <<>>],
              engine_result |-> result,
              result |->
                 IF has_voltages
                 THEN [status |-> "success", message |-> "",
                       node_voltages |-> nv,
                       node_names |->
                           [name \in {x \in Keys(w.ms.nodes) :
                                        NodeIndex(w.ms, x) < Cardinality(DOMAIN nv)}
                               |-> nv[NodeIndex(w.ms, name)]],
                       component_currents |-> result.currents,
                       nodes |-> w.ms.nodes]
                 ELSE Failed("Invalid DC analyzer result")]

MS_dc_analysis(w) ==
    IF w.ms.nodes = <<>>
    THEN [dc |-> w.dc, engine_result |-> [status |-> "", message |-> "",
              node_voltages |-> EmptyMap, currents |-> EmptyMap, power |-> EmptyMap,
              source_currents |-> EmptyMap],
          result |-> Failed("No nodes in circuit")]
    ELSE LET num_nodes == SetMax(Values(w.ms.nodes)) + 1
             result == DC_solve(w.dc, num_nodes)
             nv == result.node_voltages
             \* result.get('node_voltages') is not None: every result DCAnalyzer.solve
             \* returns carries the key, an empty dict when the solve failed
             has_voltages == TRUE
         IN  [dc |-> [w.dc EXCEPT !.node_count = num_nodes],
              engine_result |-> result,
              result |->
                 IF has_voltages
                 THEN [status |-> "success", message |-> "",
                       node_voltages |-> nv,
                       node_names |->
                           [name \in {x \in Keys(w.ms.nodes) :
                                        NodeIndex(w.ms, x) < Cardinality(DOMAIN nv)}
                               |-> nv[NodeIndex(w.ms, name)]],
                       component_currents |-> result.currents,
                       nodes |-> w.ms.nodes]
                 ELSE Failed("Invalid DC analyzer result")]

(***************************************************************************)
(* LibraryService: the library directory and the loaded libraries.         *)
(* A file of the directory is [mtime, valid, components]: valid says that  *)
(* it parses as JSON and has a 'components' key, components is the length  *)
(* of that list. The data loaded from a file is kept as that length.       *)
(***************************************************************************)
\* the *.json files of the library directory, in os.listdir order
LibraryFiles == <<"passive", "custom">>
LibraryNames == {LibraryFiles[i] : i \in 1..Len(LibraryFiles)}

\* files that are valid whenever they are written
BundledFiles == {"passive"}

\* LibraryService._load_library_file: the returned bool
LS_load_library_file_ok(self, library_name) == self.disk[library_name].valid

\* LibraryService._load_library_file: the service afterwards
LS_load_library_file(self, library_name) ==
    IF LS_load_library_file_ok(self, library_name)
    THEN [self EXCEPT !.libraries =
              DictSet(@, library_name, self.disk[library_name].components)]
    ELSE self

\* LibraryService._load_all_libraries, run by one thread alone
RECURSIVE LS_load_all_libraries(_, _)
LS_load_all_libraries(self, json_files) ==
    IF json_files = <<>> THEN self
    ELSE LS_load_all_libraries(LS_load_library_file(self, Head(json_files)),
                               Tail(json_files))

\* no LibraryService was constructed
LS_none == [disk |-> EmptyMap, libraries |-> EmptyMap,
            last_file_mtimes |-> EmptyMap, pending |-> <<>>]

\* LibraryService.__init__ over a directory; pending is the rest of the
\* json_files loop of a running reload_all_libraries
LS_init(disk) ==
    LS_load_all_libraries([disk |-> disk, libraries |-> EmptyMap,
                           last_file_mtimes |-> EmptyMap, pending |-> <<>>],
                          LibraryFiles)

\* LibraryService.get_library; None is [found |-> FALSE]
LS_get_library(self, library_name) ==
    IF library_name \in DOMAIN self.libraries
    THEN [found |-> TRUE, data |-> self.libraries[library_name]]
    ELSE [found |-> FALSE, data |-> 0]

\* LibraryService.get_library_names, as a set
LS_get_library_names(self) == DOMAIN self.libraries

RECURSIVE SumOver(_, _)
SumOver(f, S) ==
    IF S = {} THEN 0
    ELSE LET x == CHOOSE y \in S : TRUE IN f[x] + SumOver(f, S \ {x})

\* LibraryService.get_library_stats when the dict keeps its size meanwhile
LS_get_library_stats(self) ==
    [total_libraries |-> Cardinality(DOMAIN self.libraries),
     total_components |-> SumOver(self.libraries, DOMAIN self.libraries),
     by_library |-> self.libraries]

(***************************************************************************)
(* LibraryRegistry: the directory, the components dict and the callbacks.  *)
(* A component definition is [id, name, type]; a file is [valid,           *)
(* components] with the list of the definitions it declares.               *)
(***************************************************************************)
\* the *.json files of the directory, in glob order
RegistryFiles == <<"passive", "sources">>
RegistryNames == {RegistryFiles[i] : i \in 1..Len(RegistryFiles)}

\* LibraryRegistry._load_library_file: the loop over lib_data["components"]
RECURSIVE REG_register(_, _)
REG_register(components, comps) ==
    IF comps = <<>> THEN components
    ELSE LET comp_def == Head(comps)
         IN REG_register(DictSet(DictSet(components, comp_def.id, comp_def),
                                 comp_def.name, comp_def),
                         Tail(comps))

\* LibraryRegistry._load_library_file; invalid JSON is caught and skipped
REG_load_library_file(self, file) ==
    IF self.disk[file].valid
    THEN [self EXCEPT
             !.libraries = DictSet(@, file, self.disk[file].components),
             !.components = REG_register(@, self.disk[file].components)]
    ELSE self

\* LibraryRegistry._load_all_libraries
RECURSIVE REG_load_all_libraries(_, _)
REG_load_all_libraries(self, json_files) ==
    IF json_files = <<>> THEN self
    ELSE REG_load_all_libraries(REG_load_library_file(self, Head(json_files)),
                                Tail(json_files))

\* no LibraryRegistry was constructed
REG_none == [disk |-> EmptyMap, components |-> EmptyMap, libraries |-> EmptyMap,
             change_callbacks |-> <<>>, called |-> <<>>]

\* LibraryRegistry.__init__; called lists the callbacks the last call invoked
REG_init(disk) ==
    REG_load_all_libraries([disk |-> disk, components |-> EmptyMap,
                            libraries |-> EmptyMap, change_callbacks |-> <<>>,
                            called |-> <<>>],
                           RegistryFiles)

\* LibraryRegistry.subscribe_to_changes
REG_subscribe_to_changes(self, callback) ==
    [self EXCEPT !.change_callbacks = Append(@, callback), !.called = <<>>]

\* LibraryRegistry._notify_changes: the callbacks invoked, in order
REG_notify_changes(self) == self.change_callbacks

\* LibraryRegistry.reload_all: the returned bool
REG_reload_all_changed(self) ==
    LET old_count == Cardinality(DOMAIN self.components)
        loaded == REG_load_all_libraries(
                      [self EXCEPT !.components = EmptyMap, !.libraries = EmptyMap],
                      RegistryFiles)
        new_count == Cardinality(DOMAIN loaded.components)
    IN new_count # old_count

\* LibraryRegistry.reload_all: the registry afterwards
REG_reload_all(self) ==
    LET loaded == REG_load_all_libraries(
                      [self EXCEPT !.components = EmptyMap, !.libraries = EmptyMap],
                      RegistryFiles)
    IN [loaded EXCEPT !.called = IF REG_reload_all_changed(self)
                                 THEN REG_notify_changes(loaded) ELSE <<>>]

(***************************************************************************)
(* What the caller observes of a call.                                     *)
(***************************************************************************)
Call(op, name, value) == [op |-> op, name |-> name, value |-> value]

NoResult == [status |-> "", message |-> "", node_voltages |-> EmptyMap,
             node_names |-> EmptyMap, component_currents |-> EmptyMap,
             nodes |-> <<>>]

NoEngineResult == [status |-> "", message |-> "", node_voltages |-> EmptyMap,
                   currents |-> EmptyMap, power |-> EmptyMap,
                   source_currents |-> EmptyMap]

RetNone == [kind |-> "none", index |-> 0, result |-> NoResult]
RetIndex(i) == [kind |-> "index", index |-> i, result |-> NoResult]
RetRaised == [kind |-> "raised", index |-> 0, result |-> NoResult]
RetResult(r) == [kind |-> "result", index |-> 0, result |-> r]

Init ==
    /\ sut \in {"CircuitSolver", "CircuitSolverMicroservices"}
    /\ cs = CS_init
    /\ ms = MS_init
    /\ dc = DC_init
    /\ ac = AC_init
    /\ tr = TR_init
    /\ last_call = Call("__init__", "", 0)
    /\ ret = RetNone
    /\ engine_ret = NoEngineResult
    /\ ls = LS_none
    /\ reg = REG_none

(***************************************************************************)
(* Actions: one per public operation of CircuitSolver.                     *)
(***************************************************************************)
CSApply(r, op, name, value) ==
    /\ sut = "CircuitSolver"
    /\ cs' = r.self
    /\ last_call' = Call(op, name, value)
    /\ ret' = IF r.raised THEN RetRaised ELSE RetNone
    /\ engine_ret' = NoEngineResult
    /\ UNCHANGED <<sut, ms, dc, ac, tr, ls, reg>>

CSAddNode(node_name) ==
    /\ sut = "CircuitSolver"
    /\ cs' = CS_add_node(cs, node_name)
    /\ last_call' = Call("add_node", node_name, 0)
    /\ ret' = RetIndex(NodeIndex(cs', node_name))
    /\ engine_ret' = NoEngineResult
    /\ UNCHANGED <<sut, ms, dc, ac, tr, ls, reg>>

CSAddResistor(name, node1, node2, resistance) ==
    CSApply(CS_add_resistor(cs, name, node1, node2, resistance),
            "add_resistor", name, resistance)

CSAddCapacitor(name, node1, node2, capacitance) ==
    CSApply(CS_add_capacitor(cs, name, node1, node2, capacitance),
            "add_capacitor", name, capacitance)

CSAddInductor(name, node1, node2, inductance) ==
    CSApply(CS_add_inductor(cs, name, node1, node2, inductance),
            "add_inductor", name, inductance)

CSAddVoltageSource(name, node_pos, node_neg, voltage) ==
    CSApply([raised |-> FALSE,
             self |-> CS_add_voltage_source(cs, name, node_pos, node_neg, voltage)],
            "add_voltage_source", name, voltage)

CSAddCurrentSource(name, node1, node2, current) ==
    CSApply([raised |-> FALSE,
             self |-> CS_add_current_source(cs, name, node1, node2, current)],
            "add_current_source", name, current)

(***************************************************************************)
(* Actions: one per public operation of CircuitSolverMicroservices.        *)
(***************************************************************************)
MSWorld == World(ms, dc, ac, tr)

MSApply(r, op, name, value) ==
    /\ sut = "CircuitSolverMicroservices"
    /\ ms' = r.ms
    /\ dc' = r.dc
    /\ ac' = r.ac
    /\ tr' = r.tr
    /\ last_call' = Call(op, name, value)
    /\ ret' = IF r.raised THEN RetRaised ELSE RetNone
    /\ engine_ret' = NoEngineResult
    /\ UNCHANGED <<sut, cs, ls, reg>>

MSAddNode(node_name) ==
    /\ sut = "CircuitSolverMicroservices"
    /\ ms' = MS_add_node(ms, node_name)
    /\ last_call' = Call("add_node", node_name, 0)
    /\ ret' = RetIndex(NodeIndex(ms', node_name))
    /\ engine_ret' = NoEngineResult
    /\ UNCHANGED <<sut, cs, dc, ac, tr, ls, reg>>

MSAddResistor(name, node1, node2, resistance) ==
    MSApply(MS_add_resistor(MSWorld, name, node1, node2, resistance),
            "add_resistor", name, resistance)

MSAddCapacitor(name, node1, node2, capacitance) ==
    MSApply(MS_add_capacitor(MSWorld, name, node1, node2, capacitance),
            "add_capacitor", name, capacitance)

MSAddInductor(name, node1, node2, inductance) ==
    MSApply(MS_add_inductor(MSWorld, name, node1, node2, inductance),
            "add_inductor", name, inductance)

MSAddVoltageSource(name, node_pos, node_neg, voltage) ==
    MSApply(MS_add_voltage_source(MSWorld, name, node_pos, node_neg, voltage),
            "add_voltage_source", name, voltage)

MSAddCurrentSource(name, node1, node2, current) ==
    MSApply(MS_add_current_source(MSWorld, name, node1, node2, current),
            "add_current_source", name, current)

(***************************************************************************)
(* Spec: node registration and component insertion on either solver.       *)
(***************************************************************************)
\* terminal pairs the caller wires components to in Spec
InsertPairs == {<<"a", "gnd">>, <<"b", "0">>}
SourceValues == {5}

CSRoom == Len(cs.components) < MaxComps
MSRoom == Len(ms.components_list) < MaxComps

Next ==
    \/ \E n \in NodeNames : CSAddNode(n)
    \/ \E p \in InsertPairs, v \in InsertValues :
          CSRoom /\ CSAddResistor("R1", p[1], p[2], v)
    \/ \E p \in InsertPairs, v \in InsertValues :
          CSRoom /\ CSAddCapacitor("C1", p[1], p[2], v)
    \/ \E p \in InsertPairs, v \in InsertValues :
          CSRoom /\ CSAddInductor("L1", p[1], p[2], v)
    \/ \E p \in InsertPairs, v \in SourceValues :
          CSRoom /\ CSAddVoltageSource("V1", p[1], p[2], v)
    \/ \E p \in InsertPairs, v \in SourceValues :
          CSRoom /\ CSAddCurrentSource("I1", p[1], p[2], v)
    \/ \E n \in NodeNames : MSAddNode(n)
    \/ \E p \in InsertPairs, v \in InsertValues :
          MSRoom /\ MSAddResistor("R1", p[1], p[2], v)
    \/ \E p \in InsertPairs, v \in InsertValues :
          MSRoom /\ MSAddCapacitor("C1", p[1], p[2], v)
    \/ \E p \in InsertPairs, v \in InsertValues :
          MSRoom /\ MSAddInductor("L1", p[1], p[2], v)
    \/ \E p \in InsertPairs, v \in SourceValues :
          MSRoom /\ MSAddVoltageSource("V1", p[1], p[2], v)
    \/ \E p \in InsertPairs, v \in SourceValues :
          MSRoom /\ MSAddCurrentSource("I1", p[1], p[2], v)

Spec == Init /\ [][Next]_vars

(***************************************************************************)
(* SpecDC: circuits of resistors and sources, and their DC analysis.       *)
(***************************************************************************)
CSDcAnalysis ==
    /\ sut = "CircuitSolver"
    /\ last_call' = Call("dc_analysis", "", 0)
    /\ ret' = RetResult(CS_dc_analysis(cs))
    /\ engine_ret' = NoEngineResult
    /\ UNCHANGED <<sut, cs, ms, dc, ac, tr, ls, reg>>

MSDcAnalysis ==
    /\ sut = "CircuitSolverMicroservices"
    /\ LET r == MS_dc_analysis(MSWorld)
       IN  /\ dc' = r.dc
           /\ ret' = RetResult(r.result)
           /\ engine_ret' = r.engine_result
    /\ last_call' = Call("dc_analysis", "", 0)
    /\ UNCHANGED <<sut, cs, ms, ac, tr, ls, reg>>

\* the components the caller wires in SpecDC
DCResistors == {[name |-> "R1", node1 |-> "a", node2 |-> "m"],
                [name |-> "R2", node1 |-> "m", node2 |-> "gnd"]}
DCResistances == {1, 3}
DCVoltageSources == {[name |-> "V1", node_pos |-> "a", node_neg |-> "gnd", value |-> 5],
                     [name |-> "V2", node_pos |-> "gnd", node_neg |-> "gnd", value |-> 5],
                     [name |-> "V3", node_pos |-> "a", node_neg |-> "c", value |-> 5]}
DCCurrentSources == {[name |-> "I1", node1 |-> "gnd", node2 |-> "b", value |-> 1]}

CSRoomDC == Len(cs.components) < MaxDCComps
MSRoomDC == Len(ms.components_list) < MaxDCComps

NextDC ==
    \/ \E c \in DCResistors, v \in DCResistances :
          CSRoomDC /\ CSAddResistor(c.name, c.node1, c.node2, v)
    \/ \E c \in DCVoltageSources :
          CSRoomDC /\ CSAddVoltageSource(c.name, c.node_pos, c.node_neg, c.value)
    \/ \E c \in DCCurrentSources :
          CSRoomDC /\ CSAddCurrentSource(c.name, c.node1, c.node2, c.value)
    \/ CSDcAnalysis
    \/ \E c \in DCResistors, v \in DCResistances :
          MSRoomDC /\ MSAddResistor(c.name, c.node1, c.node2, v)
    \/ \E c \in DCVoltageSources :
          MSRoomDC /\ MSAddVoltageSource(c.name, c.node_pos, c.node_neg, c.value)
    \/ \E c \in DCCurrentSources :
          MSRoomDC /\ MSAddCurrentSource(c.name, c.node1, c.node2, c.value)
    \/ MSDcAnalysis

SpecDC == Init /\ [][NextDC]_vars

(***************************************************************************)
(* SpecEngines: the analyzers used standalone, with integer node indices.  *)
(***************************************************************************)
InitEngines ==
    /\ sut \in {"DCAnalyzer", "ACAnalyzer", "TransientAnalyzer"}
    /\ cs = CS_init
    /\ ms = MS_init
    /\ dc = DC_init
    /\ ac = AC_init
    /\ tr = TR_init
    /\ last_call = Call("__init__", "", 0)
    /\ ret = RetNone
    /\ engine_ret = NoEngineResult
    /\ ls = LS_none
    /\ reg = REG_none

DCAddResistor(name, node1, node2, value) ==
    /\ sut = "DCAnalyzer"
    /\ LET r == DC_add_resistor(dc, name, node1, node2, value)
       IN  /\ dc' = r.self
           /\ ret' = IF r.raised THEN RetRaised ELSE RetNone
    /\ last_call' = Call("add_resistor", name, value)
    /\ UNCHANGED <<sut, cs, ms, ac, tr, engine_ret, ls, reg>>

ACApply(self, op, name, value) ==
    /\ sut = "ACAnalyzer"
    /\ ac' = self
    /\ ret' = RetNone
    /\ last_call' = Call(op, name, value)
    /\ UNCHANGED <<sut, cs, ms, dc, tr, engine_ret, ls, reg>>

ACAddResistor(name, node1, node2, value) ==
    ACApply(AC_add_resistor(ac, name, node1, node2, value), "add_resistor", name, value)

ACAddCapacitor(name, node1, node2, capacitance) ==
    ACApply(AC_add_capacitor(ac, name, node1, node2, capacitance),
            "add_capacitor", name, capacitance)

ACAddInductor(name, node1, node2, inductance) ==
    ACApply(AC_add_inductor(ac, name, node1, node2, inductance),
            "add_inductor", name, inductance)

TRApply(self, op, name, value) ==
    /\ sut = "TransientAnalyzer"
    /\ tr' = self
    /\ ret' = RetNone
    /\ last_call' = Call(op, name, value)
    /\ UNCHANGED <<sut, cs, ms, dc, ac, engine_ret, ls, reg>>

TRAddResistor(name, node1, node2, value) ==
    TRApply(TR_add_resistor(tr, name, node1, node2, value), "add_resistor", name, value)

TRAddCapacitor(name, node1, node2, capacitance) ==
    TRApply(TR_add_capacitor(tr, name, node1, node2, capacitance, 0),
            "add_capacitor", name, capacitance)

TRAddInductor(name, node1, node2, inductance) ==
    TRApply(TR_add_inductor(tr, name, node1, node2, inductance, 0),
            "add_inductor", name, inductance)

\* node indices and names the caller passes to an engine
EngineNodes == {0, 1}
EngineNames == {"X1", "X2"}

NextEngines ==
    \/ \E nm \in EngineNames, n1 \in EngineNodes, n2 \in EngineNodes, v \in InsertValues :
          Len(dc.components) < MaxEngineComps /\ DCAddResistor(nm, n1, n2, v)
    \/ \E nm \in EngineNames, n1 \in EngineNodes, n2 \in EngineNodes, v \in InsertValues :
          Len(ac.components) < MaxEngineComps /\ ACAddResistor(nm, n1, n2, v)
    \/ \E nm \in EngineNames, n1 \in EngineNodes, n2 \in EngineNodes, v \in InsertValues :
          Len(ac.components) < MaxEngineComps /\ ACAddCapacitor(nm, n1, n2, v)
    \/ \E nm \in EngineNames, n1 \in EngineNodes, n2 \in EngineNodes, v \in InsertValues :
          Len(ac.components) < MaxEngineComps /\ ACAddInductor(nm, n1, n2, v)
    \/ \E nm \in EngineNames, n1 \in EngineNodes, n2 \in EngineNodes, v \in InsertValues :
          Len(tr.components) < MaxEngineComps /\ TRAddResistor(nm, n1, n2, v)
    \/ \E nm \in EngineNames, n1 \in EngineNodes, n2 \in EngineNodes, v \in InsertValues :
          Len(tr.components) < MaxEngineComps /\ TRAddCapacitor(nm, n1, n2, v)
    \/ \E nm \in EngineNames, n1 \in EngineNodes, n2 \in EngineNodes, v \in InsertValues :
          Len(tr.components) < MaxEngineComps /\ TRAddInductor(nm, n1, n2, v)

SpecEngines == InitEngines /\ [][NextEngines]_vars

(***************************************************************************)
(* ACAnalyzer.solve.  omega = 2*pi*frequency is kept as the integer        *)
(* 2*frequency in units of pi, so a magnitude is a rational coefficient    *)
(* times 1, pi or 1/pi.  A phase is in degrees.                            *)
(***************************************************************************)
AC_detect_node_count(self) ==
    SetMax({0} \cup {self.components[k].node1 : k \in 1..Len(self.components)}
               \cup {self.components[k].node2 : k \in 1..Len(self.components)}
               \cup {self.voltage_sources[k].node_pos : k \in 1..Len(self.voltage_sources)}
               \cup {self.voltage_sources[k].node_neg : k \in 1..Len(self.voltage_sources)})
        + 1

Magnitude(coef, unit) == [coef |-> coef, unit |-> unit]

\* Z and Y_comp = 1.0 / Z of one component, then abs(Z) and the phase of Z;
\* a division by zero raises ZeroDivisionError
AC_impedance(comp, frequency) ==
    LET x == 2 * frequency * comp.value
    IN  IF comp.type = "resistor"
        THEN IF comp.value = 0
             THEN [raised |-> TRUE]
             ELSE [raised |-> FALSE,
                   magnitude |-> Magnitude(Rat(Abs(comp.value)), "1"),
                   phase |-> IF comp.value > 0 THEN 0 ELSE 180]
        ELSE IF x = 0
             THEN [raised |-> TRUE]
             ELSE IF comp.type = "capacitor"
                  THEN [raised |-> FALSE,
                        magnitude |-> Magnitude(Norm(1, Abs(x)), "1/pi"),
                        phase |-> IF x > 0 THEN -90 ELSE 90]
                  ELSE [raised |-> FALSE,
                        magnitude |-> Magnitude(Rat(Abs(x)), "pi"),
                        phase |-> IF x > 0 THEN 90 ELSE -90]

\* the loop over self.components at one frequency, from component k on:
\* impedances[frequency] as far as the loop got, and whether it raised
RECURSIVE AC_assemble(_, _, _, _)
AC_assemble(comps, frequency, k, stored) ==
    IF k > Len(comps)
    THEN [raised |-> FALSE, stored |-> stored]
    ELSE LET z == AC_impedance(comps[k], frequency)
         IN  IF z.raised
             THEN [raised |-> TRUE, stored |-> stored]
             ELSE AC_assemble(comps, frequency, k + 1,
                      DictSet(stored, comps[k].name,
                              [magnitude |-> z.magnitude, phase |-> z.phase]))

\* Y is the zero matrix: no component joins two different nodes
AC_zero_matrix(self) ==
    \A k \in 1..Len(self.components) :
        self.components[k].node1 = self.components[k].node2

\* one pass of the loop body fails: the assembly raises, or np.linalg.solve
\* raises LinAlgError.  Y is a sum of two-terminal stamps and has no ground
\* row, so it is singular at every frequency; solve raises on an exact zero
\* pivot, and returns a vector at the frequencies in solves, where rounding
\* hides the zero pivot (never for the zero matrix).
AC_fails_at(self, frequency, solves) ==
    \/ AC_assemble(self.components, frequency, 1, EmptyMap).raised
    \/ AC_zero_matrix(self)
    \/ frequency \notin solves

\* freq_response: the keys of node_voltages and of component_currents
AC_freq_response(self, num_nodes) ==
    [node_voltages |-> 0..(num_nodes - 1),
     component_currents |-> {self.components[k].name : k \in 1..Len(self.components)}]

\* the sweep that gives up at the first failing frequency (break for continue)
RECURSIVE AC_sweep_aborting(_, _, _, _, _, _)
AC_sweep_aborting(self, frequencies, solves, num_nodes, k, results) ==
    IF k > Len(frequencies) THEN results
    ELSE LET frequency == frequencies[k]
             a == AC_assemble(self.components, frequency, 1, EmptyMap)
             imp == IF a.stored = EmptyMap THEN results.impedances
                    ELSE DictSet(results.impedances, frequency, a.stored)
         IN  IF AC_fails_at(self, frequency, solves)
             THEN [results EXCEPT !.impedances = imp]
             ELSE AC_sweep_aborting(self, frequencies, solves, num_nodes, k + 1,
                      [results EXCEPT !.impedances = imp,
                                      !.response = DictSet(@, frequency,
                                          AC_freq_response(self, num_nodes))])

\* for frequency in frequencies: ..., from the k-th frequency on
RECURSIVE AC_sweep(_, _, _, _, _, _)
AC_sweep(self, frequencies, solves, num_nodes, k, results) ==
    IF k > Len(frequencies) THEN results
    ELSE LET frequency == frequencies[k]
             a == AC_assemble(self.components, frequency, 1, EmptyMap)
             imp == IF a.stored = EmptyMap THEN results.impedances
                    ELSE DictSet(results.impedances, frequency,
                                 IF frequency \in DOMAIN results.impedances
                                 THEN a.stored @@ results.impedances[frequency]
                                 ELSE a.stored)
         IN  AC_sweep(self, frequencies, solves, num_nodes, k + 1,
                 IF AC_fails_at(self, frequency, solves)
                 THEN [results EXCEPT !.impedances = imp]
                 ELSE [results EXCEPT !.impedances = imp,
                                      !.response = DictSet(@, frequency,
                                          AC_freq_response(self, num_nodes))])

\* ACAnalyzer.solve(frequencies), num_nodes auto-detected
AC_solve(self, frequencies, solves) ==
    IF self.voltage_sources = <<>>
    THEN [status |-> "error", message |-> "No AC voltage sources defined",
          frequencies |-> <<>>, response |-> EmptyMap, impedances |-> EmptyMap]
    ELSE AC_sweep(self, frequencies, solves, AC_detect_node_count(self), 1,
                  [status |-> "success", message |-> "", frequencies |-> frequencies,
                   response |-> EmptyMap, impedances |-> EmptyMap])

(***************************************************************************)
(* TransientAnalyzer.solve.  solve_ivp is modelled by its outcome: it      *)
(* finishes (sol.status = 0), fails (sol.status = -1) or raises.           *)
(***************************************************************************)
\* pulse_func(t) of add_pulse_source
TR_pulse_func(func, t) == IF t < func.t_rise THEN func.v_initial ELSE func.v_pulse

\* the capacitors and inductors, in insertion order
TR_reactive(self) ==
    SelectSeq(self.components, LAMBDA c : c.type \in {"capacitor", "inductor"})

TR_state_names(self) ==
    [k \in 1..Len(TR_reactive(self)) |->
        <<IF TR_reactive(self)[k].type = "capacitor" THEN "V" ELSE "I",
          TR_reactive(self)[k].name>>]

\* self.initial_conditions.get(comp['name'], 0) for each reactive element
TR_initial_state(self) ==
    [k \in 1..Len(TR_reactive(self)) |->
        IF TR_reactive(self)[k].name \in DOMAIN self.initial_conditions
        THEN self.initial_conditions[TR_reactive(self)[k].name]
        ELSE 0]

TR_calculate_component_current(self, t, y, component) == Zero
TR_calculate_component_voltage(self, t, y, component) == Zero

\* system_ode(t, y): I_cap / C and V_ind / L; a value of 0 raises
\* ZeroDivisionError
TR_system_ode(self, t, y) ==
    LET r == TR_reactive(self)
    IN  [raised |-> \E k \in 1..Len(r) : r[k].value = 0,
         dydt |-> [k \in 1..Len(r) |->
                     IF r[k].value = 0 THEN Zero
                     ELSE IF r[k].type = "capacitor"
                     THEN RDiv(TR_calculate_component_current(self, t, y, r[k]),
                               Rat(r[k].value))
                     ELSE RDiv(TR_calculate_component_voltage(self, t, y, r[k]),
                               Rat(r[k].value))]]

\* np.linspace(t_span[0], t_span[1], num_points), num_points >= 0
TR_linspace(t_span, num_points) ==
    [k \in 1..num_points |->
        IF num_points = 1 THEN Rat(t_span[1])
        ELSE RAdd(Rat(t_span[1]),
                  RDiv(Rat((k - 1) * (t_span[2] - t_span[1])), Rat(num_points - 1)))]

\* sol.y[i]: the derivative is zero everywhere it is defined, so each state
\* keeps its initial value at every sample
TR_trajectory(self, i, num_points) ==
    [k \in 1..num_points |-> Rat(TR_initial_state(self)[i])]

TR_error(message) ==
    [status |-> "error", message |-> message, time |-> <<>>, states |-> EmptyMap,
     node_voltages |-> EmptyMap, component_currents |-> EmptyMap]

\* the statements of the try block that raise, with the exception's text
TR_raises(self, t_span, num_points, ivp) ==
    IF num_points < 0 THEN "Number of samples must be non-negative"
    ELSE IF TR_system_ode(self, t_span[1], TR_initial_state(self)).raised
    THEN "float division by zero"
    ELSE IF ivp = "raised" THEN "solve_ivp raised"
    ELSE ""

\* TransientAnalyzer.solve that reports success whatever sol.status is
TR_solve_always_success(self, t_span, num_points, ivp) ==
    IF TR_raises(self, t_span, num_points, ivp) # ""
    THEN TR_error(TR_raises(self, t_span, num_points, ivp))
    ELSE [status |-> "success",
          message |-> "",
          time |-> TR_linspace(t_span, num_points),
          states |-> FillDict(EmptyMap,
                        [k \in 1..Len(TR_reactive(self)) |-> TR_reactive(self)[k].name],
                        [k \in 1..Len(TR_reactive(self)) |->
                            TR_trajectory(self, k, num_points)], 1),
          node_voltages |-> EmptyMap, component_currents |-> EmptyMap]

\* TransientAnalyzer.solve(t_span, num_points)
TR_solve(self, t_span, num_points, ivp) ==
    IF TR_raises(self, t_span, num_points, ivp) # ""
    THEN TR_error(TR_raises(self, t_span, num_points, ivp))
    ELSE [status |-> IF ivp = "finished" THEN "success" ELSE "error",
          message |-> "",
          time |-> TR_linspace(t_span, num_points),
          states |-> FillDict(EmptyMap,
                        [k \in 1..Len(TR_reactive(self)) |-> TR_reactive(self)[k].name],
                        [k \in 1..Len(TR_reactive(self)) |->
                            TR_trajectory(self, k, num_points)], 1),
          node_voltages |-> EmptyMap, component_currents |-> EmptyMap]

(***************************************************************************)
(* SpecTR: a caller fills a TransientAnalyzer and solves.                  *)
(***************************************************************************)
InitTR ==
    /\ sut = "TransientAnalyzer"
    /\ cs = CS_init
    /\ ms = MS_init
    /\ dc = DC_init
    /\ ac = AC_init
    /\ tr = TR_init
    /\ last_call = Call("__init__", "", 0)
    /\ ret = RetNone
    /\ engine_ret = NoEngineResult
    /\ ls = LS_none
    /\ reg = REG_none

\* an add_* call with an initial condition
CallIC(op, name, value, initial) ==
    [op |-> op, name |-> name, value |-> value, initial |-> initial]

TRAddCapacitorIC(name, node1, node2, capacitance, initial_voltage) ==
    /\ sut = "TransientAnalyzer"
    /\ tr' = TR_add_capacitor(tr, name, node1, node2, capacitance, initial_voltage)
    /\ ret' = RetNone
    /\ last_call' = CallIC("add_capacitor", name, capacitance, initial_voltage)
    /\ UNCHANGED <<sut, cs, ms, dc, ac, engine_ret, ls, reg>>

TRAddInductorIC(name, node1, node2, inductance, initial_current) ==
    /\ sut = "TransientAnalyzer"
    /\ tr' = TR_add_inductor(tr, name, node1, node2, inductance, initial_current)
    /\ ret' = RetNone
    /\ last_call' = CallIC("add_inductor", name, inductance, initial_current)
    /\ UNCHANGED <<sut, cs, ms, dc, ac, engine_ret, ls, reg>>

TRAddPulseSource(name, node_pos, node_neg, v_initial, v_pulse, t_rise) ==
    TRApply(TR_add_pulse_source(tr, name, node_pos, node_neg, v_initial, v_pulse, t_rise),
            "add_pulse_source", name, v_pulse)

\* what happened inside the last solve: the state vector it built, the
\* derivative at the start and the outcome of solve_ivp
TRObserved(t_span, num_points, ivp) ==
    [status |-> "", message |-> "",
     t_span |-> t_span, num_points |-> num_points,
     state_names |-> TR_state_names(tr),
     initial_state |-> TR_initial_state(tr),
     dydt |-> TR_system_ode(tr, t_span[1], TR_initial_state(tr)).dydt,
     threw |-> TR_raises(tr, t_span, num_points, ivp) # "",
     integrator |-> ivp]

TRSolve(t_span, num_points, ivp) ==
    /\ sut = "TransientAnalyzer"
    /\ ret' = RetResult(TR_solve(tr, t_span, num_points, ivp))
    /\ engine_ret' = TRObserved(t_span, num_points, ivp)
    /\ last_call' = Call("solve", "", 0)
    /\ UNCHANGED <<sut, cs, ms, dc, ac, tr, ls, reg>>

\* what the caller passes in SpecTR
TRTerminals == {<<1, 2>>, <<2, 0>>}
TRValues == {0, 2}
TRInitials == {0, 1}
TRSpans == {<<0, 20>>}
TRNumPoints == {-1, 3}
IvpOutcomes == {"finished", "failed", "raised"}
TRRoom == Len(tr.components) < MaxEngineComps

NextTR ==
    \/ \E nm \in EngineNames, t \in TRTerminals, v \in TRValues :
          TRRoom /\ TRAddResistor(nm, t[1], t[2], v)
    \/ \E nm \in EngineNames, t \in TRTerminals, v \in TRValues, i \in TRInitials :
          TRRoom /\ TRAddCapacitorIC(nm, t[1], t[2], v, i)
    \/ \E nm \in EngineNames, t \in TRTerminals, v \in TRValues, i \in TRInitials :
          TRRoom /\ TRAddInductorIC(nm, t[1], t[2], v, i)
    \/ tr.sources = <<>> /\ TRAddPulseSource("V1", 1, 0, 0, 5, 0)
    \/ \E s \in TRSpans, n \in TRNumPoints, o \in IvpOutcomes : TRSolve(s, n, o)

SpecTR == InitTR /\ [][NextTR]_vars

(***************************************************************************)
(* SpecAC: a caller fills an ACAnalyzer and sweeps it.                     *)
(***************************************************************************)
InitAC ==
    /\ sut = "ACAnalyzer"
    /\ cs = CS_init
    /\ ms = MS_init
    /\ dc = DC_init
    /\ ac = AC_init
    /\ tr = TR_init
    /\ last_call = Call("__init__", "", 0)
    /\ ret = RetNone
    /\ engine_ret = NoEngineResult
    /\ ls = LS_none
    /\ reg = REG_none

ACAddVoltageSource(name, node_pos, node_neg, magnitude) ==
    ACApply(AC_add_voltage_source(ac, name, node_pos, node_neg, magnitude, 0),
            "add_voltage_source", name, magnitude)

\* what happened inside the last sweep: the frequencies whose pass failed
ACObserved(frequencies, solves) ==
    [status |-> "", message |-> "", frequencies |-> frequencies,
     failed |-> {frequencies[k] : k \in {j \in 1..Len(frequencies) :
                                          AC_fails_at(ac, frequencies[j], solves)}}]

ACSolve(frequencies, solves) ==
    /\ sut = "ACAnalyzer"
    /\ ret' = RetResult(AC_solve(ac, frequencies, solves))
    /\ engine_ret' = ACObserved(frequencies, solves)
    /\ last_call' = Call("solve", "", 0)
    /\ UNCHANGED <<sut, cs, ms, dc, ac, tr, ls, reg>>

\* the sweeps, terminals and values the caller passes in SpecAC
ACSweeps == {<<1, 0, 2>>, <<2, 1>>, <<0>>}
ACTerminals == {<<1, 0>>, <<1, 1>>}
ACRoom == Len(ac.components) < MaxEngineComps

NextAC ==
    \/ \E nm \in EngineNames, t \in ACTerminals, v \in InsertValues :
          ACRoom /\ ACAddResistor(nm, t[1], t[2], v)
    \/ \E nm \in EngineNames, t \in ACTerminals, v \in InsertValues :
          ACRoom /\ ACAddCapacitor(nm, t[1], t[2], v)
    \/ \E nm \in EngineNames, t \in ACTerminals, v \in InsertValues :
          ACRoom /\ ACAddInductor(nm, t[1], t[2], v)
    \/ ac.voltage_sources = <<>> /\ ACAddVoltageSource("V1", 1, 0, 1)
    \/ \E fs \in ACSweeps :
          \E solves \in SUBSET {fs[k] : k \in 1..Len(fs)} : ACSolve(fs, solves)

SpecAC == InitAC /\ [][NextAC]_vars

(***************************************************************************)
(* Claims about DC analysis, checked under SpecDC.                         *)
(***************************************************************************)
IsDcCall == last_call.op = "dc_analysis"

\* the facade holds exactly the divider V1: a->gnd, R1: a->m, R2: m->gnd
IsDivider ==
    /\ Len(ms.components_list) = 3
    /\ Keys(ms.nodes) = {"a", "m", "gnd"}
    /\ \E i, j, k \in 1..3 :
          /\ {i, j, k} = 1..3
          /\ ms.components_list[i].name = "V1"
          /\ ms.components_list[j].name = "R1"
          /\ ms.components_list[k].name = "R2"

ValueOf(comps, name) == comps[CHOOSE i \in 1..Len(comps) : comps[i].name = name].value

\* V * R2 / (R1 + R2)
DividerVoltage ==
    LET c == ms.components_list
    IN  RDiv(Rat(ValueOf(c, "V1") * ValueOf(c, "R2")),
             Rat(ValueOf(c, "R1") + ValueOf(c, "R2")))

\* C1: for the divider V1 (a to ground), R1 (a to m), R2 (m to ground), added in
\* any order, dc_analysis of the facade returns status success and reports node m
\* at V*R2/(R1+R2).
C1_DividerVoltage ==
    (sut = "CircuitSolverMicroservices" /\ IsDcCall /\ IsDivider)
        => /\ ret.kind = "result"
           /\ ret.result.status = "success"
           /\ "m" \in DOMAIN ret.result.node_names
           /\ ret.result.node_names["m"] = DividerVoltage

\* C2: every result of a DC solve (DCAnalyzer.solve, CircuitSolver.dc_analysis)
\* with status success reports exactly 0 for node index 0.
C2_GroundIsZero ==
    IsDcCall =>
        /\ (sut = "CircuitSolver" /\ ret.result.status = "success")
              => /\ 0 \in DOMAIN ret.result.node_voltages
                 /\ ret.result.node_voltages[0] = Zero
        /\ (sut = "CircuitSolverMicroservices" /\ engine_ret.status = "success")
              => /\ 0 \in DOMAIN engine_ret.node_voltages
                 /\ engine_ret.node_voltages[0] = Zero

\* the matrix the last DC solve assembled is singular
CSSingular ==
    /\ cs.nodes # <<>>
    /\ LET n == SetMax(Values(cs.nodes)) + 1
       IN  Singular(CS_dc_system(cs, n).Y, n)

DCSingular ==
    /\ ms.nodes # <<>>
    /\ LET n == SetMax(Values(ms.nodes)) + 1
       IN  Singular(DC_system(dc, n).Y, n + Len(dc.voltage_sources))

IsFailure(r) ==
    /\ r.status \in {"failed", "error"}
    /\ r.message # ""
    /\ r.node_voltages = EmptyMap

C4_FacadeReportsFailure ==
    (sut = "CircuitSolverMicroservices" /\ IsDcCall /\ ms.nodes # <<>>
     /\ engine_ret.status # "success")
        => ret.result.status = "failed"

\* the two terminal node indices of a component
Terminals(c) ==
    IF c.type = "voltage_source" THEN <<c.node_pos, c.node_neg>>
    ELSE <<c.node1, c.node2>>

\* some registered node is connected to exactly one component terminal
HasFloatingNode(nodes, comps) ==
    \E n \in Values(nodes) :
        Cardinality({<<k, t>> \in (1..Len(comps)) \X {1, 2} :
                        Terminals(comps[k])[t] = n}) = 1

\* C5: a circuit with a floating node yields status failed from dc_analysis
\* (CircuitSolver and CircuitSolverMicroservices), never a success result and
\* never an exception.
C5_FloatingNodeFails ==
    (/\ IsDcCall
     /\ IF sut = "CircuitSolver"
        THEN HasFloatingNode(cs.nodes, cs.components)
        ELSE HasFloatingNode(ms.nodes, ms.components_list))
        => /\ ret.kind = "result"
           /\ ret.result.status = "failed"

(***************************************************************************)
(* Claims about insertion and the node registry, checked under Spec.       *)
(***************************************************************************)
\* the solver the caller works on
Solver == IF sut = "CircuitSolver" THEN cs ELSE ms
SolverNext == IF sut = "CircuitSolver" THEN cs' ELSE ms'

\* C6: add_resistor, add_capacitor and add_inductor with a value <= 0 raise and
\* leave the circuit unchanged: node registry, node_counter and every component
\* list are as before the call.
C6_RejectNonPositive ==
    [][(last_call'.op \in {"add_resistor", "add_capacitor", "add_inductor"}
        /\ last_call'.value <= 0)
          => /\ ret'.kind = "raised"
             /\ UNCHANGED <<cs, ms, dc, ac, tr>>]_vars

C6_Witness ==
    /\ last_call.op = "add_capacitor"
    /\ last_call.value <= 0
    /\ ret.kind = "raised"
    /\ Len(Solver.nodes) >= 2

GroundAliases == {"gnd", "ground", "0"}

\* C8: add_node returns 0 for every name that is, ignoring case, "gnd",
\* "ground" or "0", whatever was registered before; such a name is never bound
\* to a positive index and its registration never advances node_counter.
C8_GroundAliasIsZero ==
    /\ [](\A i \in 1..Len(Solver.nodes) :
            Lower(Solver.nodes[i].name) \in GroundAliases => Solver.nodes[i].idx = 0)
    /\ [][(last_call'.op = "add_node" /\ Lower(last_call'.name) \in GroundAliases)
            => /\ ret'.index = 0
               /\ SolverNext.node_counter = Solver.node_counter]_vars

\* C9: a repeated add_node(name) returns the index the name was given when it
\* was first registered and leaves the registry and node_counter unchanged:
\* every step keeps the index of every registered name, add_node returns the
\* registered index, and add_node of a registered name changes nothing.
C9_AddNodeIdempotent ==
    [][/\ \A n \in Keys(Solver.nodes) :
             /\ n \in Keys(SolverNext.nodes)
             /\ NodeIndex(SolverNext, n) = NodeIndex(Solver, n)
       /\ last_call'.op = "add_node"
             => /\ ret'.kind = "index"
                /\ ret'.index = NodeIndex(SolverNext, last_call'.name)
                /\ last_call'.name \in Keys(Solver.nodes)
                      => /\ SolverNext = Solver
                         /\ ret'.index = NodeIndex(Solver, last_call'.name)]_vars

\* the last call was add_node of a name registered before two other names
C9_Witness ==
    /\ last_call.op = "add_node"
    /\ Len(Solver.nodes) >= 3
    /\ Solver.nodes[1].name = last_call.name
    /\ ret.index = Solver.nodes[1].idx

\* the registry entries whose name is not a ground alias
NonGround(nodes) == {i \in 1..Len(nodes) : Lower(nodes[i].name) \notin GroundAliases}

\* C10: the indices held by the names that are not ground aliases are exactly
\* 1..node_counter, and no two such names share an index.
C10_SequentialIndices ==
    /\ {Solver.nodes[i].idx : i \in NonGround(Solver.nodes)} = 1..Solver.node_counter
    /\ \A i, j \in NonGround(Solver.nodes) :
          i # j => Solver.nodes[i].idx # Solver.nodes[j].idx

(***************************************************************************)
(* Claims about the standalone analyzers, checked under SpecEngines.       *)
(***************************************************************************)
PositiveRLC(comps) ==
    \A k \in 1..Len(comps) :
        comps[k].type \in {"resistor", "capacitor", "inductor"} => comps[k].value > 0

\* C7: in every reachable state of each analyzer, every resistor, capacitor and
\* inductor of its component list has a strictly positive value.
C7_PositiveValues ==
    /\ PositiveRLC(dc.components)
    /\ PositiveRLC(ac.components)
    /\ PositiveRLC(tr.components)

(***************************************************************************)
(* Further claims about DC analysis, checked under SpecDC.                 *)
(***************************************************************************)
\* every voltage source of comps has V[node_pos] - V[node_neg] equal to its value
SourcesHold(comps, V) ==
    \A k \in 1..Len(comps) :
        comps[k].type = "voltage_source"
            => RSub(V[comps[k].node_pos], V[comps[k].node_neg]) = Rat(comps[k].value)

\* the same for DCAnalyzer's voltage_sources list
DCSourcesHold(srcs, V) ==
    \A k \in 1..Len(srcs) :
        RSub(V[srcs[k].node_pos], V[srcs[k].node_neg]) = Rat(srcs[k].voltage)

\* C11: every successful DC solution (CircuitSolver.dc_analysis,
\* DCAnalyzer.solve) satisfies V[n_pos] - V[n_neg] = value exactly for every
\* voltage source, a source with neither terminal on ground included.
C11_SourceConstraint ==
    IsDcCall =>
        /\ (sut = "CircuitSolver" /\ ret.result.status = "success")
              => SourcesHold(cs.components, ret.result.node_voltages)
        /\ (sut = "CircuitSolverMicroservices" /\ engine_ret.status = "success")
              => DCSourcesHold(dc.voltage_sources, engine_ret.node_voltages)

\* the voltage sources of CircuitSolver, in insertion order
CSVoltageSources == SelectSeq(cs.components, LAMBDA c : c.type = "voltage_source")

\* the system has num_nodes + Len(values) unknowns and its equation
\* num_nodes + i (counting from 0) has the value of the i-th source on its right
HasAuxiliaryUnknowns(S, num_nodes, values) ==
    /\ DOMAIN S.I = 0..(num_nodes + Len(values) - 1)
    /\ DOMAIN S.Y = DOMAIN S.I
    /\ \A i \in 1..Len(values) : S.I[num_nodes + i - 1] = Rat(values[i])

\* C12: the system a DC solve assembles (CircuitSolver.dc_analysis,
\* DCAnalyzer.solve) has exactly num_nodes + num_voltage_sources unknowns, with
\* num_nodes the highest node index plus one, and the i-th voltage source owns
\* the unknown num_nodes + i.
C12_Unknowns ==
    IsDcCall =>
        /\ (sut = "CircuitSolver" /\ cs.nodes # <<>>)
              => LET n == SetMax(Values(cs.nodes)) + 1
                 IN  HasAuxiliaryUnknowns(CS_dc_system(cs, n), n,
                         [i \in 1..Len(CSVoltageSources) |-> CSVoltageSources[i].value])
        /\ (sut = "CircuitSolverMicroservices" /\ ms.nodes # <<>>)
              => LET n == SetMax(Values(ms.nodes)) + 1
                 IN  /\ dc.node_count = n
                     /\ HasAuxiliaryUnknowns(DC_system(dc, n), n,
                            [i \in 1..Len(dc.voltage_sources) |->
                                dc.voltage_sources[i].voltage])

(***************************************************************************)
(* Claims about the AC sweep, checked under SpecAC.                        *)
(***************************************************************************)
IsAcSolve == sut = "ACAnalyzer" /\ last_call.op = "solve"

\* C13: when the solve fails at one frequency of an AC sweep, that frequency
\* gets no response entry, every other frequency of the list still gets its
\* entry, and the sweep returns without raising.
C13_SweepSkipsFailures ==
    IsAcSolve =>
        /\ ret.kind = "result"
        /\ ret.result.status = "success"
              => DOMAIN ret.result.response =
                    {engine_ret.frequencies[k] : k \in 1..Len(engine_ret.frequencies)}
                        \ engine_ret.failed

\* the sweep 1, 0, 2 over a resistor and a capacitor failed at 0 only, where
\* the capacitor's impedance divides by zero, and answered before and after it
C13_Witness ==
    /\ IsAcSolve
    /\ Len(ac.components) = 2
    /\ \A k \in 1..2 : ac.components[k].value > 0
    /\ ac.components[1].type = "resistor"
    /\ ac.components[2].type = "capacitor"
    /\ ac.components[1].name # ac.components[2].name
    /\ engine_ret.frequencies = <<1, 0, 2>>
    /\ engine_ret.failed = {0}
    /\ DOMAIN ret.result.response = {1, 2}

\* x < y for rationals
RLess(x, y) == x[1] * y[2] < y[1] * x[2]

\* the impedance of an ideal element at frequency f > 0: R at 0 degrees,
\* 1/(2*pi*f*C) at -90 degrees, 2*pi*f*L at +90 degrees
IdealImpedance(comp, f) ==
    IF comp.type = "resistor"
    THEN [magnitude |-> Magnitude(Rat(comp.value), "1"), phase |-> 0]
    ELSE IF comp.type = "capacitor"
    THEN [magnitude |-> Magnitude(Norm(1, 2 * f * comp.value), "1/pi"), phase |-> -90]
    ELSE [magnitude |-> Magnitude(Rat(2 * f * comp.value), "pi"), phase |-> 90]

\* the components of the analyzer whose name no other component has
ACNamed == {k \in 1..Len(ac.components) :
               \A j \in 1..Len(ac.components) :
                   ac.components[j].name = ac.components[k].name => j = k}

\* C14: at every swept frequency f > 0 the impedance reported for a component
\* is the ideal one: R at phase 0 for a resistor, 1/(2*pi*f*C) at -90 degrees
\* and strictly decreasing in f for a capacitor, 2*pi*f*L at +90 degrees and
\* strictly increasing in f for an inductor.
C14_IdealImpedance ==
    (IsAcSolve /\ ret.result.status = "success") =>
        LET imp == ret.result.impedances
            swept(k) == {f \in DOMAIN imp : f > 0 /\ ac.components[k].name \in DOMAIN imp[f]}
            coef(k, f) == imp[f][ac.components[k].name].magnitude.coef
        IN  \A k \in ACNamed :
                /\ \A f \in swept(k) :
                       imp[f][ac.components[k].name] = IdealImpedance(ac.components[k], f)
                /\ \A f, g \in swept(k) :
                       f < g => CASE ac.components[k].type = "resistor" ->
                                         coef(k, f) = coef(k, g)
                                  [] ac.components[k].type = "capacitor" ->
                                         RLess(coef(k, g), coef(k, f))
                                  [] OTHER -> RLess(coef(k, f), coef(k, g))

(***************************************************************************)
(* Claims about TransientAnalyzer                                          *)
(***************************************************************************)
IsTrSolve == sut = "TransientAnalyzer" /\ last_call.op = "solve"

\* the engine holds exactly a resistor from the source node to node 2 and a
\* capacitor, initially at 0 V, from node 2 to ground, driven by a source
\* that is non-zero at time t
RCStep(self, t) ==
    /\ Len(self.components) = 2
    /\ self.components[1].type = "resistor"
    /\ self.components[1].value > 0
    /\ <<self.components[1].node1, self.components[1].node2>> = <<1, 2>>
    /\ self.components[2].type = "capacitor"
    /\ self.components[2].value > 0
    /\ <<self.components[2].node1, self.components[2].node2>> = <<2, 0>>
    /\ self.components[1].name # self.components[2].name
    /\ TR_initial_state(self) = <<0>>
    /\ Len(self.sources) = 1
    /\ <<self.sources[1].node_pos, self.sources[1].node_neg>> = <<1, 0>>
    /\ TR_pulse_func(self.sources[1].func, t) # 0

\* C15: the right-hand side solve integrates is not a constant: for a
\* capacitor at 0 V connected through a resistor to a non-zero step source
\* the derivative of the capacitor voltage at the start is non-zero.
C15_DerivativeFromNetwork ==
    (IsTrSolve /\ RCStep(tr, engine_ret.t_span[1]) /\ ~engine_ret.threw)
        => engine_ret.dydt[1] # Zero

\* the last sample of the trajectory solve reports for the state named name
LastSample(result, name) == result.states[name][Len(result.time)]

\* C16: for a series RC circuit driven by a step, capacitor initially at
\* 0 V, the capacitor voltage reported at t = 5 * R * C is at least 99% of
\* the step voltage.
C16_RCSettles ==
    (/\ IsTrSolve
     /\ RCStep(tr, 0)
     /\ ret.result.status = "success"
     /\ Len(ret.result.time) > 0
     /\ ret.result.time[Len(ret.result.time)]
            = Rat(5 * tr.components[1].value * tr.components[2].value))
        => ~RLess(LastSample(ret.result, tr.components[2].name),
                  <<99 * TR_pulse_func(tr.sources[1].func, 0), 100>>)

ReactiveAdds == {"add_capacitor", "add_inductor"}

\* what the state vector of the next solve must be after one more call: a
\* capacitor or an inductor appends its initial condition, anything else
\* leaves the vector alone
StateVectorFollows ==
    IF last_call'.op \in ReactiveAdds
    THEN TR_initial_state(tr') = Append(TR_initial_state(tr), last_call'.initial)
    ELSE TR_initial_state(tr') = TR_initial_state(tr)

\* the solve that just returned without an exception reports one trajectory
\* for each entry of the state vector
OneTrajectoryPerState ==
    (IsTrSolve /\ ~engine_ret.threw)
        => /\ Len(engine_ret.initial_state) = Len(TR_reactive(tr))
           /\ Len(engine_ret.state_names) = Len(TR_reactive(tr))
           /\ Cardinality(DOMAIN ret.result.states) = Len(TR_reactive(tr))

\* C17: the state vector of TransientAnalyzer.solve has one entry per
\* capacitor and inductor, in insertion order, each initialised to the
\* initial condition its element was added with; resistors and sources add
\* none; the result reports one state trajectory per reactive element.
C17_StateVector ==
    /\ []OneTrajectoryPerState
    /\ [][sut = "TransientAnalyzer" => StateVectorFollows]_vars

\* C18: TransientAnalyzer.solve never raises: it returns a result whose
\* status is not "success" whenever the integrator ended with a non-zero
\* status or anything inside solve threw, and "success" only when the
\* integrator's status is 0.
C18_SolveNeverRaises ==
    IsTrSolve =>
        /\ ret.kind = "result"
        /\ (engine_ret.threw \/ engine_ret.integrator # "finished")
               => ret.result.status = "error"
        /\ ret.result.status = "success"
               => (~engine_ret.threw /\ engine_ret.integrator = "finished")
        /\ ret.result.status \in {"success", "error"}

\* solve_ivp ended with status -1 on a circuit with a capacitor, and solve
\* returned an error result
C18_Witness ==
    /\ IsTrSolve
    /\ ~engine_ret.threw
    /\ engine_ret.integrator = "failed"
    /\ Len(engine_ret.initial_state) > 0
    /\ ret.kind = "result"
    /\ ret.result.status = "error"

(***************************************************************************)
(* clear() of the analyzers and ServiceManager.reset_services              *)
(***************************************************************************)
\* DCAnalyzer._detect_node_count
DC_detect_node_count(self) ==
    SetMax({0}
           \cup {self.components[k].node1 : k \in 1..Len(self.components)}
           \cup {self.components[k].node2 : k \in 1..Len(self.components)}
           \cup {self.voltage_sources[k].node_pos : k \in 1..Len(self.voltage_sources)}
           \cup {self.voltage_sources[k].node_neg : k \in 1..Len(self.voltage_sources)}
           \cup {self.current_sources[k].node1 : k \in 1..Len(self.current_sources)}
           \cup {self.current_sources[k].node2 : k \in 1..Len(self.current_sources)}) + 1

\* DCAnalyzer.clear that forgets to reset node_count
DC_clear_keeping_node_count(self) ==
    [self EXCEPT !.components = <<>>, !.voltage_sources = <<>>,
                 !.current_sources = <<>>]

DC_clear(self) ==
    [self EXCEPT !.components = <<>>, !.voltage_sources = <<>>,
                 !.current_sources = <<>>, !.node_count = 0]

AC_clear(self) == [self EXCEPT !.components = <<>>, !.voltage_sources = <<>>]

TR_clear(self) ==
    [self EXCEPT !.components = <<>>, !.sources = <<>>,
                 !.initial_conditions = EmptyMap]

\* ServiceManager.reset_services on the world of the facade that owns the
\* manager: the three analyzers are cleared, the facade's own fields are not
\* touched
MS_reset_services(w) ==
    World(w.ms, DC_clear(w.dc), AC_clear(w.ac), TR_clear(w.tr))

(***************************************************************************)
(* SpecReset: add_*, solve and clear on each analyzer, and add_*,          *)
(* dc_analysis and reset_services on the facade.                           *)
(***************************************************************************)
InitReset ==
    /\ sut \in {"DCAnalyzer", "ACAnalyzer", "TransientAnalyzer",
                "CircuitSolverMicroservices"}
    /\ cs = CS_init
    /\ ms = MS_init
    /\ dc = DC_init
    /\ ac = AC_init
    /\ tr = TR_init
    /\ last_call = Call("__init__", "", 0)
    /\ ret = RetNone
    /\ engine_ret = NoEngineResult
    /\ ls = LS_none
    /\ reg = REG_none

DCAddVoltageSource(name, node_pos, node_neg, voltage) ==
    /\ sut = "DCAnalyzer"
    /\ dc' = DC_add_voltage_source(dc, name, node_pos, node_neg, voltage)
    /\ ret' = RetNone
    /\ last_call' = Call("add_voltage_source", name, voltage)
    /\ UNCHANGED <<sut, cs, ms, ac, tr, engine_ret, ls, reg>>

DCAddCurrentSource(name, node1, node2, current) ==
    /\ sut = "DCAnalyzer"
    /\ dc' = DC_add_current_source(dc, name, node1, node2, current)
    /\ ret' = RetNone
    /\ last_call' = Call("add_current_source", name, current)
    /\ UNCHANGED <<sut, cs, ms, ac, tr, engine_ret, ls, reg>>

\* DCAnalyzer.solve() with num_nodes left to auto-detection
DCSolve ==
    /\ sut = "DCAnalyzer"
    /\ LET num_nodes == DC_detect_node_count(dc)
       IN  /\ dc' = [dc EXCEPT !.node_count = num_nodes]
           /\ engine_ret' = DC_solve(dc, num_nodes)
    /\ ret' = RetNone
    /\ last_call' = Call("solve", "", 0)
    /\ UNCHANGED <<sut, cs, ms, ac, tr, ls, reg>>

DCClear ==
    /\ sut = "DCAnalyzer"
    /\ dc' = DC_clear(dc)
    /\ ret' = RetNone
    /\ last_call' = Call("clear", "", 0)
    /\ UNCHANGED <<sut, cs, ms, ac, tr, engine_ret, ls, reg>>

ACClear ==
    /\ sut = "ACAnalyzer"
    /\ ac' = AC_clear(ac)
    /\ ret' = RetNone
    /\ last_call' = Call("clear", "", 0)
    /\ UNCHANGED <<sut, cs, ms, dc, tr, engine_ret, ls, reg>>

TRClear ==
    /\ sut = "TransientAnalyzer"
    /\ tr' = TR_clear(tr)
    /\ ret' = RetNone
    /\ last_call' = Call("clear", "", 0)
    /\ UNCHANGED <<sut, cs, ms, dc, ac, engine_ret, ls, reg>>

\* facade.service_manager.reset_services()
MSResetServices ==
    /\ sut = "CircuitSolverMicroservices"
    /\ LET w == MS_reset_services(MSWorld)
       IN  /\ ms' = w.ms
           /\ dc' = w.dc
           /\ ac' = w.ac
           /\ tr' = w.tr
    /\ ret' = RetNone
    /\ engine_ret' = NoEngineResult
    /\ last_call' = Call("reset_services", "", 0)
    /\ UNCHANGED <<sut, cs, ls, reg>>

\* what the caller passes in SpecReset
ResetTerminals == {<<1, 0>>, <<2, 1>>}
ResetValues == {2}
DCEngineRoom ==
    Len(dc.components) + Len(dc.voltage_sources) + Len(dc.current_sources)
        < MaxEngineComps

NextReset ==
    \/ \E nm \in EngineNames, t \in ResetTerminals, v \in ResetValues :
          DCEngineRoom /\ DCAddResistor(nm, t[1], t[2], v)
    \/ DCEngineRoom /\ DCAddVoltageSource("V1", 1, 0, 5)
    \/ DCEngineRoom /\ DCAddCurrentSource("I1", 0, 1, 1)
    \/ DCSolve
    \/ DCClear
    \/ \E nm \in EngineNames, t \in ResetTerminals, v \in ResetValues :
          ACRoom /\ ACAddResistor(nm, t[1], t[2], v)
    \/ \E nm \in EngineNames, t \in ResetTerminals, v \in ResetValues :
          ACRoom /\ ACAddCapacitor(nm, t[1], t[2], v)
    \/ \E nm \in EngineNames, t \in ResetTerminals, v \in ResetValues :
          ACRoom /\ ACAddInductor(nm, t[1], t[2], v)
    \/ ac.voltage_sources = <<>> /\ ACAddVoltageSource("V1", 1, 0, 5)
    \/ \E solves \in SUBSET {1} : ACSolve(<<1>>, solves)
    \/ ACClear
    \/ \E nm \in EngineNames, t \in ResetTerminals, v \in ResetValues :
          TRRoom /\ TRAddResistor(nm, t[1], t[2], v)
    \/ \E nm \in EngineNames, t \in ResetTerminals, v \in ResetValues, i \in TRInitials :
          TRRoom /\ TRAddCapacitorIC(nm, t[1], t[2], v, i)
    \/ \E nm \in EngineNames, t \in ResetTerminals, v \in ResetValues, i \in TRInitials :
          TRRoom /\ TRAddInductorIC(nm, t[1], t[2], v, i)
    \/ tr.sources = <<>> /\ TRAddPulseSource("V1", 1, 0, 0, 5, 0)
    \/ \E s \in TRSpans, o \in IvpOutcomes : TRSolve(s, 3, o)
    \/ TRClear
    \/ \E c \in DCResistors, v \in DCResistances :
          MSRoomDC /\ MSAddResistor(c.name, c.node1, c.node2, v)
    \/ \E c \in DCVoltageSources :
          MSRoomDC /\ MSAddVoltageSource(c.name, c.node_pos, c.node_neg, c.value)
    \/ \E c \in DCCurrentSources :
          MSRoomDC /\ MSAddCurrentSource(c.name, c.node1, c.node2, c.value)
    \/ \E v \in ResetValues : MSRoomDC /\ MSAddCapacitor("C1", "m", "gnd", v)
    \/ \E v \in ResetValues : MSRoomDC /\ MSAddInductor("L1", "a", "m", v)
    \/ MSDcAnalysis
    \/ MSResetServices

SpecReset == InitReset /\ [][NextReset]_vars

(***************************************************************************)
(* Claims about clear() and reset_services                                 *)
(***************************************************************************)
IsClear == last_call.op = "clear"

\* C19: after clear() on a DC, AC or transient analyzer, whatever add_* and
\* solve calls came before, every field of the engine equals the field of a
\* freshly constructed engine.
C19_ClearRestoresFresh ==
    IsClear => /\ sut = "DCAnalyzer" => dc = DC_init
               /\ sut = "ACAnalyzer" => ac = AC_init
               /\ sut = "TransientAnalyzer" => tr = TR_init

\* a DCAnalyzer whose solve had set node_count has just been cleared
C19_Witness ==
    /\ IsClear
    /\ sut = "DCAnalyzer"
    /\ engine_ret.status \in {"success", "error"}
    /\ dc = DC_init

\* the name under which the caller wired node index idx
NodeNameOf(nodes, idx) == CHOOSE name \in Keys(nodes) : nodes[Lookup(nodes, name)].idx = idx

\* the add_* calls that built the components S[k..], made again on the
\* facade in world w; names are the node names of the first round
RECURSIVE MS_reinsert(_, _, _, _)
MS_reinsert(w, S, names, k) ==
    IF k > Len(S) THEN w
    ELSE LET c == S[k]
             r == CASE c.type = "resistor" ->
                         MS_add_resistor(w, c.name, NodeNameOf(names, c.node1),
                                         NodeNameOf(names, c.node2), c.value)
                    [] c.type = "capacitor" ->
                         MS_add_capacitor(w, c.name, NodeNameOf(names, c.node1),
                                          NodeNameOf(names, c.node2), c.value)
                    [] c.type = "inductor" ->
                         MS_add_inductor(w, c.name, NodeNameOf(names, c.node1),
                                         NodeNameOf(names, c.node2), c.value)
                    [] c.type = "voltage_source" ->
                         MS_add_voltage_source(w, c.name, NodeNameOf(names, c.node_pos),
                                               NodeNameOf(names, c.node_neg), c.value)
                    [] c.type = "current_source" ->
                         MS_add_current_source(w, c.name, NodeNameOf(names, c.node1),
                                               NodeNameOf(names, c.node2), c.value)
         IN  MS_reinsert(World(r.ms, r.dc, r.ac, r.tr), S, names, k + 1)

\* the add_* calls that filled the DCAnalyzer src, made again on self
RECURSIVE DC_reinsert_resistors(_, _, _)
DC_reinsert_resistors(self, comps, k) ==
    IF k > Len(comps) THEN self
    ELSE DC_reinsert_resistors(
            DC_add_resistor(self, comps[k].name, comps[k].node1, comps[k].node2,
                            comps[k].value).self, comps, k + 1)

RECURSIVE DC_reinsert_voltage_sources(_, _, _)
DC_reinsert_voltage_sources(self, srcs, k) ==
    IF k > Len(srcs) THEN self
    ELSE DC_reinsert_voltage_sources(
            DC_add_voltage_source(self, srcs[k].name, srcs[k].node_pos, srcs[k].node_neg,
                                  srcs[k].voltage), srcs, k + 1)

RECURSIVE DC_reinsert_current_sources(_, _, _)
DC_reinsert_current_sources(self, srcs, k) ==
    IF k > Len(srcs) THEN self
    ELSE DC_reinsert_current_sources(
            DC_add_current_source(self, srcs[k].name, srcs[k].node1, srcs[k].node2,
                                  srcs[k].current), srcs, k + 1)

DC_reinsert(self, src) ==
    DC_reinsert_current_sources(
        DC_reinsert_voltage_sources(
            DC_reinsert_resistors(self, src.components, 1),
            src.voltage_sources, 1),
        src.current_sources, 1)

\* second round on a DCAnalyzer: clear(), the same add_* calls, solve()
EngineSecondRound ==
    LET again == DC_reinsert(DC_clear(dc), dc)
    IN  /\ again.components = dc.components
        /\ again.voltage_sources = dc.voltage_sources
        /\ again.current_sources = dc.current_sources
        /\ DC_solve(again, DC_detect_node_count(again)) = engine_ret

\* second round on the facade: reset_services(), the same add_* calls,
\* dc_analysis()
FacadeSecondRound ==
    LET again == MS_reinsert(MS_reset_services(MSWorld), ms.components_list, ms.nodes, 1)
    IN  /\ again.ms.components_list = ms.components_list
        /\ MS_dc_analysis(again).result = ret.result

\* the facade has not been reset since its first insertion: every component
\* of components_list is still in the analyzers (the transient analyzer
\* receives every component but the current sources)
FacadeFirstRound ==
    Len(tr.components) + Len(tr.sources) + Len(dc.current_sources)
        = Len(ms.components_list)

\* C20: inserting a component sequence S, solving, resetting (clear() on an
\* engine, ServiceManager.reset_services() for the facade), inserting S
\* again and solving gives a result equal to the first one, and the circuit
\* holds S exactly once.
C20_ResetRoundTrip ==
    /\ (sut = "DCAnalyzer" /\ last_call.op = "solve") => EngineSecondRound
    /\ (sut = "CircuitSolverMicroservices" /\ last_call.op = "dc_analysis"
            /\ ms.components_list # <<>> /\ FacadeFirstRound)
           => FacadeSecondRound

(***************************************************************************)
(* Claims about what a solve leaves behind                                 *)
(***************************************************************************)
AddOps == {"add_resistor", "add_capacitor", "add_inductor",
           "add_voltage_source", "add_current_source"}

\* the component and source lists of the engines and the node registries
Circuit ==
    [cs_nodes |-> cs.nodes, cs_components |-> cs.components,
     ms_nodes |-> ms.nodes, ms_components |-> ms.components_list,
     dc |-> <<dc.components, dc.voltage_sources, dc.current_sources>>,
     ac |-> <<ac.components, ac.voltage_sources>>,
     tr |-> <<tr.components, tr.sources, tr.initial_conditions>>]

\* the number of components the solver under test holds
Held == IF sut = "CircuitSolver" THEN Len(cs.components)
        ELSE Len(dc.components) + Len(dc.voltage_sources) + Len(dc.current_sources)

\* the result the solver under test computes from the circuit it holds now
ResultNow == IF sut = "CircuitSolver" THEN CS_dc_analysis(cs)
             ELSE MS_dc_analysis(MSWorld).result

\* C21: dc_analysis leaves the component and source lists and the node
\* registry unchanged; an add_* call made right after a solve is accepted
\* and adds its component; and every solve is computed from all components
\* held at that moment.
C21_SolveLeavesCircuit ==
    /\ [][last_call'.op = "dc_analysis" => Circuit' = Circuit]_vars
    /\ [][(last_call.op = "dc_analysis" /\ last_call'.op \in AddOps)
              => (ret'.kind # "raised" /\ Held' = Held + 1)]_vars
    /\ [](last_call.op = "dc_analysis" => ret.result = ResultNow)

\* the facade accepted a component after a solve had already run (the solve
\* left its node count in the DC analyzer), next to earlier components
C21_Witness ==
    /\ sut = "CircuitSolverMicroservices"
    /\ last_call.op \in AddOps
    /\ ret.kind # "raised"
    /\ dc.node_count > 0
    /\ Len(ms.components_list) >= 2
    /\ Held = Len(ms.components_list)

\* what the caller reads from a result r it was handed earlier, when the
\* solver's registry has become nodes: a successful result stores the
\* registry dict itself under 'nodes', not a copy of it
ResultRead(r, nodes) ==
    IF r.status = "success" THEN [r EXCEPT !.nodes = nodes] ELSE r

\* the registry of the solver under test
LiveNodes == IF sut = "CircuitSolver" THEN cs.nodes ELSE ms.nodes

\* C22: a result returned by dc_analysis is not changed by the next
\* operation on the solver: every field of it, the name-to-index node map
\* included, reads as it did when it was returned.
C22_ResultNeverMutated ==
    [][(last_call.op = "dc_analysis" /\ ret.kind = "result")
          => ResultRead(ret.result, LiveNodes') = ret.result]_vars

(***************************************************************************)
(* SpecSteady: circuits with capacitors and inductors, and their DC        *)
(* analysis by either solver.                                              *)
(***************************************************************************)
SteadyCapacitors == {[name |-> "C1", node1 |-> "b", node2 |-> "gnd"],
                     [name |-> "C1", node1 |-> "a", node2 |-> "x"]}
SteadyInductors == {[name |-> "L1", node1 |-> "a", node2 |-> "b"]}
SteadyResistors == {[name |-> "R1", node1 |-> "b", node2 |-> "gnd"]}
SteadySources == {[name |-> "V1", node_pos |-> "a", node_neg |-> "gnd", value |-> 5]}
SteadyValues == {2}

NextSteady ==
    \/ \E c \in SteadyResistors, v \in SteadyValues :
          CSRoomDC /\ CSAddResistor(c.name, c.node1, c.node2, v)
    \/ \E c \in SteadyCapacitors, v \in SteadyValues :
          CSRoomDC /\ CSAddCapacitor(c.name, c.node1, c.node2, v)
    \/ \E c \in SteadyInductors, v \in SteadyValues :
          CSRoomDC /\ CSAddInductor(c.name, c.node1, c.node2, v)
    \/ \E c \in SteadySources :
          CSRoomDC /\ CSAddVoltageSource(c.name, c.node_pos, c.node_neg, c.value)
    \/ CSDcAnalysis
    \/ \E c \in SteadyResistors, v \in SteadyValues :
          MSRoomDC /\ MSAddResistor(c.name, c.node1, c.node2, v)
    \/ \E c \in SteadyCapacitors, v \in SteadyValues :
          MSRoomDC /\ MSAddCapacitor(c.name, c.node1, c.node2, v)
    \/ \E c \in SteadyInductors, v \in SteadyValues :
          MSRoomDC /\ MSAddInductor(c.name, c.node1, c.node2, v)
    \/ \E c \in SteadySources :
          MSRoomDC /\ MSAddVoltageSource(c.name, c.node_pos, c.node_neg, c.value)
    \/ MSDcAnalysis

SpecSteady == Init /\ [][NextSteady]_vars

\* the components the solver under test was given
Wired == IF sut = "CircuitSolver" THEN cs.components ELSE ms.components_list

Reactive(comps) == SelectSeq(comps, LAMBDA c : c.type \in {"capacitor", "inductor"})

\* in the result just returned every capacitor and inductor has a current,
\* and it is 0
ReactiveCurrentsZero ==
    \A k \in 1..Len(Reactive(Wired)) :
        /\ Reactive(Wired)[k].name \in DOMAIN ret.result.component_currents
        /\ ret.result.component_currents[Reactive(Wired)[k].name] = Zero

\* in the result just returned the two terminals of every inductor are at
\* the same voltage
InductorsShort ==
    \A k \in 1..Len(Wired) :
        Wired[k].type = "inductor"
            => /\ {Wired[k].node1, Wired[k].node2} \subseteq DOMAIN ret.result.node_voltages
               /\ ret.result.node_voltages[Wired[k].node1]
                      = ret.result.node_voltages[Wired[k].node2]

\* the result the solver under test computes from the circuit it holds
\* after the step
ResultNext == IF sut = "CircuitSolver" THEN CS_dc_analysis(cs')
              ELSE MS_dc_analysis(World(ms', dc', ac', tr')).result

\* adding a capacitor to a circuit that solves keeps it solvable with the
\* voltage of every node it already had
CapacitorOpen ==
    (last_call'.op = "add_capacitor" /\ ret'.kind # "raised"
        /\ ResultNow.status = "success")
        => /\ ResultNext.status = "success"
           /\ \A name \in DOMAIN ResultNow.node_names :
                 /\ name \in DOMAIN ResultNext.node_names
                 /\ ResultNext.node_names[name] = ResultNow.node_names[name]

\* C23: in DC analysis a capacitor is an open circuit and an inductor a
\* short circuit: adding a capacitor leaves every node voltage unchanged,
\* the terminals of an inductor are at equal voltage in a successful
\* solution, and the result reports a current of 0 for every capacitor and
\* inductor.
C23_OpenAndShort ==
    /\ []((last_call.op = "dc_analysis" /\ ret.result.status = "success")
             => (ReactiveCurrentsZero /\ InductorsShort))
    /\ [][CapacitorOpen]_vars

(***************************************************************************)
(* CircuitSolver.transient_analysis.  exp is not evaluated: a sample of a  *)
(* closed-form response is kept as the expression the code computes,       *)
(* shape * scale with shape "rise" for 1 - exp(-x) and "decay" for         *)
(* exp(-x).                                                                *)
(***************************************************************************)
Rise(scale, x) == [shape |-> "rise", scale |-> scale, x |-> x]
Decay(scale, x) == [shape |-> "decay", scale |-> scale, x |-> x]

\* np.arange(0, duration, time_step) for integers duration >= 0, time_step > 0
CS_arange(duration, time_step) ==
    [k \in 1..((duration + time_step - 1) \div time_step) |-> Rat((k - 1) * time_step)]

OfType(self, type) == SelectSeq(self.components, LAMBDA c : c.type = type)

CS_transient_rc(self, time_points, capacitors) ==
    LET resistors == OfType(self, "resistor")
        voltage_sources == OfType(self, "voltage_source")
    IN  IF resistors = <<>> \/ voltage_sources = <<>> \/ capacitors = <<>>
        THEN [status |-> "failed",
              message |-> "Need R, C, and voltage source for RC analysis"]
        ELSE LET R == resistors[1].value
                 C == capacitors[1].value
                 V_in == voltage_sources[1].value
                 tau == R * C
                 x(k) == RDiv(time_points[k], Rat(tau))
             IN  [status |-> "success", message |-> "",
                  time |-> time_points,
                  voltage_out |-> [k \in 1..Len(time_points) |-> Rise(Rat(V_in), x(k))],
                  current |-> [k \in 1..Len(time_points) |->
                                  Decay(RDiv(Rat(V_in), Rat(R)), x(k))],
                  power |-> [k \in 1..Len(time_points) |->
                                Decay(RDiv(Rat(V_in * V_in), Rat(R)), RMul(Rat(2), x(k)))],
                  tau |-> Rat(tau)]

CS_transient_rl(self, time_points, inductors) ==
    LET resistors == OfType(self, "resistor")
        voltage_sources == OfType(self, "voltage_source")
    IN  IF resistors = <<>> \/ voltage_sources = <<>> \/ inductors = <<>>
        THEN [status |-> "failed",
              message |-> "Need R, L, and voltage source for RL analysis"]
        ELSE LET R == resistors[1].value
                 L == inductors[1].value
                 V_in == voltage_sources[1].value
                 x(k) == RDiv(RMul(time_points[k], Rat(R)), Rat(L))
             IN  [status |-> "success", message |-> "",
                  time |-> time_points,
                  current |-> [k \in 1..Len(time_points) |->
                                  Rise(RDiv(Rat(V_in), Rat(R)), x(k))],
                  voltage_L |-> [k \in 1..Len(time_points) |-> Decay(Rat(V_in), x(k))],
                  power |-> [k \in 1..Len(time_points) |->
                                [shape |-> "rise squared",
                                 scale |-> RDiv(Rat(V_in * V_in), Rat(R)), x |-> x(k)]],
                  tau |-> RDiv(Rat(L), Rat(R))]

\* np.ones(len(time_points)) * v
Constant(time_points, v) == [k \in 1..Len(time_points) |-> v]

\* zip(self.nodes.keys(), V_nodes): the k-th registered name is paired with
\* the k-th entry of the voltage vector
CS_transient_resistive(self, time_points) ==
    LET dc_result == CS_dc_analysis(self)
    IN  IF dc_result.status # "success" THEN dc_result
        ELSE LET V_nodes == dc_result.node_voltages
                 currents == dc_result.component_currents
                 zipped == {k \in 1..Len(self.nodes) : (k - 1) \in DOMAIN V_nodes}
             IN  [status |-> "success", message |-> "",
                  time |-> time_points,
                  node_voltages |->
                      [name \in {self.nodes[k].name : k \in zipped} |->
                          Constant(time_points,
                                   V_nodes[Lookup(self.nodes, name) - 1])],
                  component_currents |->
                      [name \in DOMAIN currents |-> Constant(time_points, currents[name])]]

\* CircuitSolver.transient_analysis(duration, time_step)
CS_transient_analysis(self, duration, time_step) ==
    LET time_points == CS_arange(duration, time_step)
        capacitors == OfType(self, "capacitor")
        inductors == OfType(self, "inductor")
    IN  IF capacitors = <<>> /\ inductors = <<>>
        THEN CS_transient_resistive(self, time_points)
        ELSE IF capacitors # <<>> /\ inductors = <<>>
        THEN CS_transient_rc(self, time_points, capacitors)
        ELSE IF inductors # <<>> /\ capacitors = <<>>
        THEN CS_transient_rl(self, time_points, inductors)
        ELSE [status |-> "failed",
              message |-> "RLC transient analysis not yet implemented"]

(***************************************************************************)
(* SpecLegacyTR: CircuitSolver circuits and their transient analysis.      *)
(***************************************************************************)
InitLegacyTR ==
    /\ sut = "CircuitSolver"
    /\ cs = CS_init
    /\ ms = MS_init
    /\ dc = DC_init
    /\ ac = AC_init
    /\ tr = TR_init
    /\ last_call = Call("__init__", "", 0)
    /\ ret = RetNone
    /\ engine_ret = NoEngineResult
    /\ ls = LS_none
    /\ reg = REG_none

CSTransientAnalysis(duration, time_step) ==
    /\ sut = "CircuitSolver"
    /\ last_call' = Call("transient_analysis", "", duration)
    /\ ret' = RetResult(CS_transient_analysis(cs, duration, time_step))
    /\ engine_ret' = NoEngineResult
    /\ UNCHANGED <<sut, cs, ms, dc, ac, tr, ls, reg>>

\* what the caller wires in SpecLegacyTR
LegacyResistors == {[name |-> "R1", node1 |-> "a", node2 |-> "b"],
                    [name |-> "R2", node1 |-> "b", node2 |-> "gnd"]}
LegacyCapacitors == {[name |-> "C1", node1 |-> "b", node2 |-> "gnd"],
                     [name |-> "C2", node1 |-> "b", node2 |-> "gnd"]}
LegacyInductors == {[name |-> "L1", node1 |-> "b", node2 |-> "gnd"]}
LegacySources == {[name |-> "V1", node_pos |-> "a", node_neg |-> "gnd", value |-> 5]}
LegacyValues == {2}
LegacyRuns == {[duration |-> 2, time_step |-> 1]}
LegacyRoom == Len(cs.components) < MaxLegacyComps

NextLegacyTR ==
    \/ cs.nodes = <<>> /\ CSAddNode("gnd")
    \/ \E c \in LegacyResistors, v \in LegacyValues :
          LegacyRoom /\ CSAddResistor(c.name, c.node1, c.node2, v)
    \/ \E c \in LegacyCapacitors, v \in LegacyValues :
          LegacyRoom /\ CSAddCapacitor(c.name, c.node1, c.node2, v)
    \/ \E c \in LegacyInductors, v \in LegacyValues :
          LegacyRoom /\ CSAddInductor(c.name, c.node1, c.node2, v)
    \/ \E c \in LegacySources :
          LegacyRoom /\ CSAddVoltageSource(c.name, c.node_pos, c.node_neg, c.value)
    \/ \E r \in LegacyRuns : CSTransientAnalysis(r.duration, r.time_step)

SpecLegacyTR == InitLegacyTR /\ [][NextLegacyTR]_vars

(***************************************************************************)
(* Claims about CircuitSolver.transient_analysis                           *)
(***************************************************************************)
IsLegacyTransient == sut = "CircuitSolver" /\ last_call.op = "transient_analysis"

\* the result is one of the closed-form single-element responses
ClosedForm(result) == result.status = "success" /\ "tau" \in DOMAIN result

\* C24: transient_analysis returns a closed-form RC or RL response only for
\* a circuit with exactly one reactive element together with a resistor and
\* a voltage source; with more than one reactive element, or with both an
\* inductor and a capacitor, it never does.
C24_ClosedFormOnlySingle ==
    (IsLegacyTransient /\ ClosedForm(ret.result))
        => /\ Len(OfType(cs, "capacitor")) + Len(OfType(cs, "inductor")) = 1
           /\ OfType(cs, "resistor") # <<>>
           /\ OfType(cs, "voltage_source") # <<>>

\* the circuit has neither a capacitor nor an inductor
Resistive(self) == OfType(self, "capacitor") = <<>> /\ OfType(self, "inductor") = <<>>

\* C25: for a circuit with no capacitor and no inductor that has a DC
\* solution, transient_analysis returns for every named node a trajectory
\* that is constant over all time samples and equal to that node's voltage
\* in the DC solution, and likewise for every component current, whatever
\* order the node names were registered in.
C25_ResistiveReplicatesDC ==
    (IsLegacyTransient /\ Resistive(cs) /\ CS_dc_analysis(cs).status = "success")
        => /\ ret.result.status = "success"
           /\ \A name \in Keys(cs.nodes) :
                 /\ name \in DOMAIN ret.result.node_voltages
                 /\ ret.result.node_voltages[name]
                        = Constant(ret.result.time, CS_dc_analysis(cs).node_names[name])
           /\ \A name \in DOMAIN CS_dc_analysis(cs).component_currents :
                 /\ name \in DOMAIN ret.result.component_currents
                 /\ ret.result.component_currents[name]
                        = Constant(ret.result.time,
                                   CS_dc_analysis(cs).component_currents[name])

(***************************************************************************)
(* ac_analysis of the two solvers                                          *)
(***************************************************************************)
RECURSIVE Pow10(_)
Pow10(e) == IF e = 0 THEN 1 ELSE 10 * Pow10(e - 1)

\* np.logspace(np.log10(freq_start), np.log10(freq_end), num_points) for
\* freq_start = 10^lo, freq_end = 10^hi and a step of whole decades
CS_logspace(lo, hi, num_points) ==
    [k \in 1..num_points |->
        IF num_points = 1 THEN Pow10(lo)
        ELSE Pow10(lo + ((k - 1) * (hi - lo)) \div (num_points - 1))]

\* CircuitSolver.ac_analysis(10^lo, 10^hi, num_points)
CS_ac_analysis(self, lo, hi, num_points) ==
    LET frequencies == CS_logspace(lo, hi, num_points)
        passive == SelectSeq(self.components,
                       LAMBDA c : c.type \in {"resistor", "capacitor", "inductor"})
    IN  IF OfType(self, "voltage_source") = <<>>
        THEN [status |-> "failed", message |-> "No voltage source for AC analysis",
              frequencies |-> <<>>, impedance |-> EmptyMap,
              transfer_function |-> EmptyMap]
        ELSE [status |-> "success", message |-> "",
              frequencies |-> frequencies,
              impedance |->
                  FillDict(EmptyMap, NamesOf(passive),
                      [i \in 1..Len(passive) |->
                          [k \in 1..num_points |->
                              AC_impedance(passive[i], frequencies[k])]], 1),
              transfer_function |-> EmptyMap]

\* ACAnalyzer.solve(frequencies, num_nodes) with num_nodes given
AC_solve_nodes(self, frequencies, solves, num_nodes) ==
    IF self.voltage_sources = <<>>
    THEN [status |-> "error", message |-> "No AC voltage sources defined",
          frequencies |-> <<>>, response |-> EmptyMap, impedances |-> EmptyMap]
    ELSE AC_sweep(self, frequencies, solves, num_nodes, 1,
                  [status |-> "success", message |-> "", frequencies |-> frequencies,
                   response |-> EmptyMap, impedances |-> EmptyMap])

\* CircuitSolverMicroservices.ac_analysis(freq_start, freq_end, num_points):
\* [engine_result, result]
MS_ac_analysis(w, freq_start, freq_end, num_points, solves) ==
    IF w.ms.nodes = <<>>
    THEN [engine_result |-> NoEngineResult,
          result |-> [status |-> "failed",
                      message |-> "max() arg is an empty sequence",
                      frequencies |-> <<>>, impedance |-> EmptyMap,
                      transfer_function |-> EmptyMap]]
    ELSE LET num_nodes == SetMax(Values(w.ms.nodes)) + 1
             result == AC_solve_nodes(w.ac, [k \in 1..num_points |-> k - 1],
                                      solves, num_nodes)
         IN  [engine_result |-> result,
              result |-> [status |-> "success", message |-> "",
                          frequencies |-> result.frequencies,
                          impedance |-> result.impedances,
                          transfer_function |-> EmptyMap]]

(***************************************************************************)
(* SpecSweep: circuits of either solver and their AC analysis.             *)
(***************************************************************************)
CallSweep(freq_start, freq_end, num_points) ==
    [op |-> "ac_analysis", name |-> "", value |-> num_points,
     freq_start |-> freq_start, freq_end |-> freq_end, num_points |-> num_points]

CSAcAnalysis(lo, hi, num_points) ==
    /\ sut = "CircuitSolver"
    /\ last_call' = CallSweep(Pow10(lo), Pow10(hi), num_points)
    /\ ret' = RetResult(CS_ac_analysis(cs, lo, hi, num_points))
    /\ engine_ret' = NoEngineResult
    /\ UNCHANGED <<sut, cs, ms, dc, ac, tr, ls, reg>>

MSAcAnalysis(lo, hi, num_points, solves) ==
    /\ sut = "CircuitSolverMicroservices"
    /\ LET r == MS_ac_analysis(MSWorld, Pow10(lo), Pow10(hi), num_points, solves)
       IN  /\ ret' = RetResult(r.result)
           /\ engine_ret' = r.engine_result
    /\ last_call' = CallSweep(Pow10(lo), Pow10(hi), num_points)
    /\ UNCHANGED <<sut, cs, ms, dc, ac, tr, ls, reg>>

\* what the caller passes in SpecSweep: decades lo..hi and a point count
SweepRanges == {[lo |-> 0, hi |-> 2, num_points |-> 3],
                [lo |-> 1, hi |-> 1, num_points |-> 1],
                [lo |-> 0, hi |-> 1, num_points |-> 2]}

NextSweep ==
    \/ \E v \in SteadyValues : CSRoomDC /\ CSAddResistor("R1", "a", "b", v)
    \/ \E v \in SteadyValues : CSRoomDC /\ CSAddCapacitor("C1", "b", "gnd", v)
    \/ \E v \in SteadyValues : CSRoomDC /\ CSAddInductor("L1", "b", "gnd", v)
    \/ CSRoomDC /\ CSAddVoltageSource("V1", "a", "gnd", 5)
    \/ \E r \in SweepRanges : CSAcAnalysis(r.lo, r.hi, r.num_points)
    \/ \E v \in SteadyValues : MSRoomDC /\ MSAddResistor("R1", "a", "b", v)
    \/ \E v \in SteadyValues : MSRoomDC /\ MSAddCapacitor("C1", "b", "gnd", v)
    \/ \E v \in SteadyValues : MSRoomDC /\ MSAddInductor("L1", "b", "gnd", v)
    \/ MSRoomDC /\ MSAddVoltageSource("V1", "a", "gnd", 5)
    \/ \E r \in SweepRanges, solves \in {{}, {1, 2}} :
          MSAcAnalysis(r.lo, r.hi, r.num_points, solves)

SpecSweep == Init /\ [][NextSweep]_vars

\* C26: ac_analysis(freq_start, freq_end, num_points) with
\* 0 < freq_start <= freq_end sweeps exactly num_points frequencies, each
\* of them > 0 and inside [freq_start, freq_end], and the frequencies it
\* reports are the ones it analysed.
C26_SweepRange ==
    (last_call.op = "ac_analysis" /\ ret.result.status = "success")
        => /\ Len(ret.result.frequencies) = last_call.num_points
           /\ \A k \in 1..Len(ret.result.frequencies) :
                 /\ ret.result.frequencies[k] > 0
                 /\ last_call.freq_start <= ret.result.frequencies[k]
                 /\ ret.result.frequencies[k] <= last_call.freq_end
           /\ sut = "CircuitSolverMicroservices"
                 => engine_ret.frequencies = ret.result.frequencies

(***************************************************************************)
(* Claims about the facade's and the analyzers' component lists            *)
(***************************************************************************)
Distinct(comps) ==
    \A i, j \in 1..Len(comps) : comps[i].name = comps[j].name => i = j

\* C27: no two components of one circuit share a name, so every reactive
\* element has its own initial condition and state trajectory: adding a
\* component under an existing name neither overwrites nor merges with the
\* earlier component's entries.
C27_UniqueNames ==
    /\ Distinct(ms.components_list)
    /\ Distinct(dc.components \o dc.voltage_sources \o dc.current_sources)
    /\ Distinct(ac.components \o ac.voltage_sources)
    /\ Distinct(tr.components \o tr.sources)
    /\ Cardinality(DOMAIN tr.initial_conditions) = Len(TR_reactive(tr))
    /\ OneTrajectoryPerState

\* the two terminals of a list entry, whichever pair of keys it uses
Ends(c) == IF "node_pos" \in DOMAIN c THEN <<c.node_pos, c.node_neg>>
           ELSE <<c.node1, c.node2>>

\* the list holds an entry with the name and terminals of c
Holds(list, c) ==
    \E k \in 1..Len(list) : list[k].name = c.name /\ Ends(list[k]) = Ends(c)

\* every entry of the analyzer's list is in components_list with one of
\* the given types
Known(list, types) ==
    \A k \in 1..Len(list) :
        \E i \in 1..Len(ms.components_list) :
            /\ ms.components_list[i].type \in types
            /\ ms.components_list[i].name = list[k].name
            /\ Ends(ms.components_list[i]) = Ends(list[k])

\* C28: after any sequence of facade add_* calls and reset_services calls
\* components_list and the three analyzers agree: resistors and voltage
\* sources are held by the DC, AC and transient analyzers, capacitors and
\* inductors by the AC and transient analyzers, current sources by the DC
\* analyzer, and no analyzer holds a component absent from components_list.
C28_FacadeAgreesWithAnalyzers ==
    sut = "CircuitSolverMicroservices" =>
        /\ \A i \in 1..Len(ms.components_list) :
              LET c == ms.components_list[i]
              IN  /\ c.type = "resistor"
                        => (Holds(dc.components, c) /\ Holds(ac.components, c)
                                /\ Holds(tr.components, c))
                  /\ c.type = "voltage_source"
                        => (Holds(dc.voltage_sources, c) /\ Holds(ac.voltage_sources, c)
                                /\ Holds(tr.sources, c))
                  /\ c.type \in {"capacitor", "inductor"}
                        => (Holds(ac.components, c) /\ Holds(tr.components, c))
                  /\ c.type = "current_source" => Holds(dc.current_sources, c)
        /\ Known(dc.components, {"resistor"})
        /\ Known(dc.voltage_sources, {"voltage_source"})
        /\ Known(dc.current_sources, {"current_source"})
        /\ Known(ac.components, {"resistor", "capacitor", "inductor"})
        /\ Known(ac.voltage_sources, {"voltage_source"})
        /\ Known(tr.components, {"resistor", "capacitor", "inductor"})
        /\ Known(tr.sources, {"voltage_source"})

(***************************************************************************)
(* SpecLibrary: one LibraryService, a thread in reload_all_libraries, the  *)
(* watcher thread, a reader thread, and an editor of the directory. The    *)
(* service takes no lock, so the threads interleave between statements.    *)
(***************************************************************************)
\* lengths of the 'components' list a file is written with
LibraryCounts == {1, 2}

InitLibrary ==
    /\ sut = "LibraryService"
    /\ cs = CS_init
    /\ ms = MS_init
    /\ dc = DC_init
    /\ ac = AC_init
    /\ tr = TR_init
    /\ last_call = Call("__init__", "", 0)
    /\ ret = RetNone
    /\ engine_ret = NoEngineResult
    /\ reg = REG_none
    /\ \E valid \in BOOLEAN :
          ls = LS_init([f \in LibraryNames |->
                           [mtime |-> 1, components |-> 1,
                            valid |-> (f \in BundledFiles \/ valid)]])

\* the editor saves a file; a bundled file stays valid
LSWrite(file, valid, components) ==
    /\ sut = "LibraryService"
    /\ ls.disk[file].mtime < MaxMtime
    /\ file \in BundledFiles => valid
    /\ ls' = [ls EXCEPT !.disk[file] = [mtime |-> @.mtime + 1, valid |-> valid,
                                        components |-> components]]
    /\ UNCHANGED <<sut, cs, ms, dc, ac, tr, last_call, ret, engine_ret, reg>>

\* reload_all_libraries, first statement: self.libraries.clear(); the
\* thread then enters the json_files loop of _load_all_libraries
LSReloadAllClear ==
    /\ sut = "LibraryService"
    /\ ls.pending = <<>>
    /\ ls' = [ls EXCEPT !.libraries = EmptyMap, !.pending = LibraryFiles]
    /\ UNCHANGED <<sut, cs, ms, dc, ac, tr, last_call, ret, engine_ret, reg>>

\* reload_all_libraries, one turn of the json_files loop
LSReloadAllLoad ==
    /\ sut = "LibraryService"
    /\ ls.pending # <<>>
    /\ ls' = [LS_load_library_file(ls, Head(ls.pending))
                 EXCEPT !.pending = Tail(ls.pending)]
    /\ UNCHANGED <<sut, cs, ms, dc, ac, tr, last_call, ret, engine_ret, reg>>

\* _watch_library_files, one turn of the loop over json_files
LSWatch(json_file) ==
    /\ sut = "LibraryService"
    /\ LET current_mtime == ls.disk[json_file].mtime
           seen == json_file \in DOMAIN ls.last_file_mtimes
           stamped == [ls EXCEPT !.last_file_mtimes =
                          DictSet(@, json_file, current_mtime)]
       IN ls' = IF ~seen THEN stamped
                ELSE IF current_mtime > ls.last_file_mtimes[json_file]
                THEN LS_load_library_file(stamped, json_file)
                ELSE ls
    /\ UNCHANGED <<sut, cs, ms, dc, ac, tr, last_call, ret, engine_ret, reg>>

LSGetLibrary(library_name) ==
    /\ sut = "LibraryService"
    /\ last_call' = Call("get_library", library_name, 0)
    /\ ret' = RetResult(LS_get_library(ls, library_name))
    /\ UNCHANGED <<sut, cs, ms, dc, ac, tr, engine_ret, ls, reg>>

LSGetLibraryNames ==
    /\ sut = "LibraryService"
    /\ last_call' = Call("get_library_names", "", 0)
    /\ ret' = RetResult(LS_get_library_names(ls))
    /\ UNCHANGED <<sut, cs, ms, dc, ac, tr, engine_ret, ls, reg>>

LSGetLibraryStats ==
    /\ sut = "LibraryService"
    /\ last_call' = Call("get_library_stats", "", 0)
    /\ ret' = RetResult(LS_get_library_stats(ls))
    /\ UNCHANGED <<sut, cs, ms, dc, ac, tr, engine_ret, ls, reg>>

\* get_library_stats while the reloading thread inserts a key in the middle
\* of the loop over self.libraries.items(): RuntimeError, dictionary changed
\* size during iteration
LSGetLibraryStatsRaced ==
    /\ sut = "LibraryService"
    /\ ls.pending # <<>>
    /\ DOMAIN ls.libraries # {}
    /\ Head(ls.pending) \notin DOMAIN ls.libraries
    /\ LS_load_library_file_ok(ls, Head(ls.pending))
    /\ ls' = [LS_load_library_file(ls, Head(ls.pending))
                 EXCEPT !.pending = Tail(ls.pending)]
    /\ last_call' = Call("get_library_stats", "", 0)
    /\ ret' = RetRaised
    /\ UNCHANGED <<sut, cs, ms, dc, ac, tr, engine_ret, reg>>

NextLibrary ==
    \/ \E file \in LibraryNames, valid \in BOOLEAN, components \in LibraryCounts :
          LSWrite(file, valid, components)
    \/ LSReloadAllClear
    \/ LSReloadAllLoad
    \/ \E json_file \in LibraryNames : LSWatch(json_file)
    \/ \E library_name \in LibraryNames : LSGetLibrary(library_name)
    \/ LSGetLibraryNames
    \/ LSGetLibraryStats
    \/ LSGetLibraryStatsRaced

SpecLibrary == InitLibrary /\ [][NextLibrary]_vars

\* the libraries whose file is valid before and after any reload
AlwaysValid == {f \in LibraryNames : f \in BundledFiles}

\* the library names a read returned
Observed ==
    IF last_call.op = "get_library"
    THEN IF ret.result.found THEN {last_call.name} ELSE {}
    ELSE IF last_call.op = "get_library_names" THEN ret.result
    ELSE DOMAIN ret.result.by_library

\* the libraries a read was asked about
Asked ==
    IF last_call.op = "get_library" THEN {last_call.name} ELSE LibraryNames

IsLibraryRead ==
    /\ last_call.op \in {"get_library", "get_library_names", "get_library_stats"}
    /\ ret.kind = "result"

\* C29: a read of the library set (get_library, get_library_names,
\* get_library_stats) made while another thread reloads never misses a
\* library whose file is valid on disk before and after the reload.
C29_ReadsSeeValidLibraries ==
    IsLibraryRead => (AlwaysValid \cap Asked) \subseteq Observed

(***************************************************************************)
(* SpecRegistry: one LibraryRegistry, an editor of its directory, callers  *)
(* of subscribe_to_changes and reload_all. reload_all holds self.lock for  *)
(* its whole body, so it is one step.                                      *)
(***************************************************************************)
Resistor == [id |-> "resistor", name |-> "Resistor", type |-> "Resistor"]
Precision == [id |-> "resistor", name |-> "Resistor", type |-> "Precision"]
Capacitor == [id |-> "capacitor", name |-> "Capacitor", type |-> "Capacitor"]
\* an entry without "id": id defaults to the name
Probe == [id |-> "Probe", name |-> "Probe", type |-> "Probe"]

\* what a file of the directory may hold
RegistryContents ==
    {[valid |-> FALSE, components |-> <<>>]} \cup
    {[valid |-> TRUE, components |-> comps] :
        comps \in {<<>>, <<Resistor>>, <<Precision>>, <<Capacitor>>, <<Probe>>,
                   <<Resistor, Capacitor>>}}

\* the callables passed to subscribe_to_changes
Subscribers == {"panel", "logger"}

InitRegistry ==
    /\ sut = "LibraryRegistry"
    /\ cs = CS_init
    /\ ms = MS_init
    /\ dc = DC_init
    /\ ac = AC_init
    /\ tr = TR_init
    /\ last_call = Call("__init__", "", 0)
    /\ ret = RetNone
    /\ engine_ret = NoEngineResult
    /\ ls = LS_none
    /\ reg = REG_init([f \in RegistryNames |->
                          IF f = "passive"
                          THEN [valid |-> TRUE, components |-> <<Resistor>>]
                          ELSE [valid |-> TRUE, components |-> <<>>]])

\* the editor saves a file of the directory
REGWrite(file, content) ==
    /\ sut = "LibraryRegistry"
    /\ reg.disk[file] # content
    /\ reg' = [reg EXCEPT !.disk[file] = content, !.called = <<>>]
    /\ last_call' = Call("write", file, 0)
    /\ ret' = RetNone
    /\ UNCHANGED <<sut, cs, ms, dc, ac, tr, engine_ret, ls>>

REGSubscribeToChanges(callback) ==
    /\ sut = "LibraryRegistry"
    /\ Len(reg.change_callbacks) < MaxCallbacks
    /\ reg' = REG_subscribe_to_changes(reg, callback)
    /\ last_call' = Call("subscribe_to_changes", callback, 0)
    /\ ret' = RetNone
    /\ UNCHANGED <<sut, cs, ms, dc, ac, tr, engine_ret, ls>>

REGReloadAll ==
    /\ sut = "LibraryRegistry"
    /\ reg' = REG_reload_all(reg)
    /\ last_call' = Call("reload_all", "", 0)
    /\ ret' = RetResult(REG_reload_all_changed(reg))
    /\ UNCHANGED <<sut, cs, ms, dc, ac, tr, engine_ret, ls>>

NextRegistry ==
    \/ \E file \in RegistryNames, content \in RegistryContents :
          REGWrite(file, content)
    \/ \E callback \in Subscribers : REGSubscribeToChanges(callback)
    \/ REGReloadAll

SpecRegistry == InitRegistry /\ [][NextRegistry]_vars

\* the set of registered component definitions
Registered(self) == {self.components[k] : k \in DOMAIN self.components}

\* how often the last call invoked a callback
Times(self, callback) ==
    Cardinality({i \in 1..Len(self.called) : self.called[i] = callback})

Subscribed(self) ==
    {self.change_callbacks[i] : i \in 1..Len(self.change_callbacks)}

\* C30: reload_all returns True and calls every subscriber exactly once
\* whenever the set of registered definitions after it differs from the set
\* before it, and returns False and calls nobody when the set is the same.
C30_ReloadReportsChange ==
    [][last_call'.op = "reload_all" =>
          IF Registered(reg') # Registered(reg)
          THEN /\ ret'.result = TRUE
               /\ \A callback \in Subscribed(reg) : Times(reg', callback) = 1
          ELSE /\ ret'.result = FALSE
               /\ reg'.called = <<>>]_vars

====
